---- MODULE Spec2Model ----
(***************************************************************************)
(* The command-processing and plan-execution pipeline of openNova:         *)
(* AIBackend (command router + confirmation gate), ActionPlanner,          *)
(* PluginManager, ActionExecutor and the GUI widget that feeds the command *)
(* queue and consumes the response queue.                                   *)
(*                                                                         *)
(* Python values are represented as follows.  A dict is a record, and      *)
(* `key in d` is `key \in DOMAIN d`.  None is the empty sequence and a     *)
(* present optional value x is <<x>>.  A str is a TLA+ string; where the   *)
(* code inspects its characters the string is looked up in Chars, which    *)
(* spells every literal of the model character by character.  An f-string  *)
(* message is the tuple of its fixed part and its arguments.               *)
(***************************************************************************)
EXTENDS Integers, Sequences, FiniteSets, TLC

\* ------------------------------------------------------------------ bounds
MaxToggles == 7
MaxDrops == 1
MaxWake == 1
MaxPlanLen == 2
MaxConfirm == 2
MaxLlmReplies == 1
MaxSent == 4
MaxFairToggles == 4

\* ------------------------------------------------------- python primitives
NoneV == <<>>
Some(x) == <<x>>
IsNone(o) == o = <<>>
TheValue(o) == o[1]

Get(d, k, default) == IF k \in DOMAIN d THEN d[k] ELSE default

\* -- string literals, character by character --
Chars ==
          "confirm" :> <<"c", "o", "n", "f", "i", "r", "m">>
       @@ " Yes " :> <<" ", "Y", "e", "s", " ">>
       @@ "confirm execute" :> <<"c", "o", "n", "f", "i", "r", "m", " ", "e", "x", "e", "c", "u", "t", "e">>
       @@ "cancel" :> <<"c", "a", "n", "c", "e", "l">>
       @@ "STOP" :> <<"S", "T", "O", "P">>
       @@ "banana" :> <<"b", "a", "n", "a", "n", "a">>
       @@ "open chrome" :> <<"o", "p", "e", "n", " ", "c", "h", "r", "o", "m", "e">>
       @@ "Weather today" :> <<"W", "e", "a", "t", "h", "e", "r", " ", "t", "o", "d", "a", "y">>
       @@ "yes" :> <<"y", "e", "s">>
       @@ "proceed" :> <<"p", "r", "o", "c", "e", "e", "d">>
       @@ "continue" :> <<"c", "o", "n", "t", "i", "n", "u", "e">>
       @@ "stop" :> <<"s", "t", "o", "p">>
       @@ "no" :> <<"n", "o">>
       @@ "abort" :> <<"a", "b", "o", "r", "t">>
       @@ "weather" :> <<"w", "e", "a", "t", "h", "e", "r">>
       @@ "temperature" :> <<"t", "e", "m", "p", "e", "r", "a", "t", "u", "r", "e">>
       @@ "forecast" :> <<"f", "o", "r", "e", "c", "a", "s", "t">>
       @@ "rain" :> <<"r", "a", "i", "n">>
       @@ "sunny" :> <<"s", "u", "n", "n", "y">>
       @@ "cloudy" :> <<"c", "l", "o", "u", "d", "y">>
       @@ "delete" :> <<"d", "e", "l", "e", "t", "e">>
       @@ "remove" :> <<"r", "e", "m", "o", "v", "e">>
       @@ "format" :> <<"f", "o", "r", "m", "a", "t">>
       @@ "rm " :> <<"r", "m", " ">>
       @@ "del " :> <<"d", "e", "l", " ">>
       @@ "registry" :> <<"r", "e", "g", "i", "s", "t", "r", "y">>
       @@ "regedit" :> <<"r", "e", "g", "e", "d", "i", "t">>
       @@ "system32" :> <<"s", "y", "s", "t", "e", "m", "3", "2">>
       @@ "action" :> <<"a", "c", "t", "i", "o", "n">>
       @@ "target" :> <<"t", "a", "r", "g", "e", "t">>
       @@ "value" :> <<"v", "a", "l", "u", "e">>
       @@ "thought" :> <<"t", "h", "o", "u", "g", "h", "t">>
       @@ "open" :> <<"o", "p", "e", "n">>
       @@ "chrome" :> <<"c", "h", "r", "o", "m", "e">>
       @@ "shell" :> <<"s", "h", "e", "l", "l">>
       @@ "del tmp" :> <<"d", "e", "l", " ", "t", "m", "p">>
       @@ "dir" :> <<"d", "i", "r">>
       @@ "type" :> <<"t", "y", "p", "e">>
       @@ "hello" :> <<"h", "e", "l", "l", "o">>
       @@ "key" :> <<"k", "e", "y">>
       @@ "ctrl+c" :> <<"c", "t", "r", "l", "+", "c">>
       @@ "fly" :> <<"f", "l", "y">>
       @@ "click" :> <<"c", "l", "i", "c", "k">>
       @@ "KEY" :> <<"K", "E", "Y">>
       @@ "5" :> <<"5">>
       @@ "true" :> <<"t", "r", "u", "e">>
       @@ "false" :> <<"f", "a", "l", "s", "e">>
       @@ "" :> <<>>
       @@ "RM -rf x" :> <<"R", "M", " ", "-", "r", "f", " ", "x">>
       @@ "rm" :> <<"r", "m">>
       @@ "Format" :> <<"F", "o", "r", "m", "a", "t">>
       @@ "Format C:" :> <<"F", "o", "r", "m", "a", "t", " ", "C", ":">>
       @@ "wait" :> <<"w", "a", "i", "t">>
       @@ "move" :> <<"m", "o", "v", "e">>
       @@ "scroll" :> <<"s", "c", "r", "o", "l", "l">>
       @@ "rm -rf /" :> <<"r", "m", " ", "-", "r", "f", " ", "/">>
       @@ "del /f /s /q C:\\" :> <<"d", "e", "l", " ", "/", "f", " ", "/", "s", " ", "/", "q", " ", "C", ":", "\\">>
       @@ "Format-Volume" :> <<"F", "o", "r", "m", "a", "t", "-", "V", "o", "l", "u", "m", "e">>
       @@ "LLM not available for planning" :> <<"L", "L", "M", " ", "n", "o", "t", " ", "a", "v", "a", "i", "l", "a", "b", "l", "e", " ", "f", "o", "r", " ", "p", "l", "a", "n", "n", "i", "n", "g">>
       @@ "Failed to parse plan JSON" :> <<"F", "a", "i", "l", "e", "d", " ", "t", "o", " ", "p", "a", "r", "s", "e", " ", "p", "l", "a", "n", " ", "J", "S", "O", "N">>
       @@ "Error: Ollama model not found. Install one with: ollama pull llama3.2" :> <<"E", "r", "r", "o", "r", ":", " ", "O", "l", "l", "a", "m", "a", " ", "m", "o", "d", "e", "l", " ", "n", "o", "t", " ", "f", "o", "u", "n", "d", ".", " ", "I", "n", "s", "t", "a", "l", "l", " ", "o", "n", "e", " ", "w", "i", "t", "h", ":", " ", "o", "l", "l", "a", "m", "a", " ", "p", "u", "l", "l", " ", "l", "l", "a", "m", "a", "3", ".", "2">>
       @@ "Error: completion failed" :> <<"E", "r", "r", "o", "r", ":", " ", "c", "o", "m", "p", "l", "e", "t", "i", "o", "n", " ", "f", "a", "i", "l", "e", "d">>
       @@ "object has no len()" :> <<"o", "b", "j", "e", "c", "t", " ", "h", "a", "s", " ", "n", "o", " ", "l", "e", "n", "(", ")">>
       @@ "ollama model not found" :> <<"o", "l", "l", "a", "m", "a", " ", "m", "o", "d", "e", "l", " ", "n", "o", "t", " ", "f", "o", "u", "n", "d">>
       @@ "model not found" :> <<"m", "o", "d", "e", "l", " ", "n", "o", "t", " ", "f", "o", "u", "n", "d">>
\* -- end of string literals --

UpperCase ==
  <<"A","B","C","D","E","F","G","H","I","J","K","L","M",
    "N","O","P","Q","R","S","T","U","V","W","X","Y","Z">>

LowerCase ==
  <<"a","b","c","d","e","f","g","h","i","j","k","l","m",
    "n","o","p","q","r","s","t","u","v","w","x","y","z">>

LowerChar(c) ==
  IF \E i \in 1..26 : UpperCase[i] = c
    THEN LowerCase[CHOOSE i \in 1..26 : UpperCase[i] = c]
    ELSE c

\* str.lower()
Lower(s) == IF s = <<>> THEN <<>> ELSE [i \in 1..Len(s) |-> LowerChar(s[i])]

IsSpace(c) == c \in {" ", "\t", "\n", "\r"}

RECURSIVE LStrip(_)
LStrip(s) == IF s # <<>> /\ IsSpace(Head(s)) THEN LStrip(Tail(s)) ELSE s

RECURSIVE RStrip(_)
RStrip(s) ==
  IF s # <<>> /\ IsSpace(s[Len(s)]) THEN RStrip(SubSeq(s, 1, Len(s) - 1)) ELSE s

\* str.strip()
Strip(s) == RStrip(LStrip(s))

\* `sub in s` on strings
Contains(sub, s) ==
  \E i \in 0..(Len(s) - Len(sub)) : SubSeq(s, i + 1, i + Len(sub)) = sub

RECURSIVE Concat(_)
Concat(ss) == IF ss = <<>> THEN <<>> ELSE Head(ss) \o Concat(Tail(ss))


\* ------------------------------------------------------------ action plans
(* An action descriptor is a dict with the keys of SYSTEM_PROMPT.  The     *)
(* language model is free to return anything, so a plan may also hold a    *)
(* step that is no dict at all (a JSON string where an object is expected); *)
(* such a step is the record [nondict |-> ...].                             *)
StepOpen == [action |-> "open", target |-> "chrome"]
StepDir == [action |-> "shell", target |-> "dir"]
StepDel == [action |-> "shell", target |-> "del tmp"]
StepTypeConfirm == [action |-> "type", value |-> "hello", confirm |-> TRUE]
StepTypeEmpty == [action |-> "type", value |-> ""]
StepClick == [action |-> "click", target |-> "chrome"]
StepKey == [action |-> "KEY", value |-> "ctrl+c"]
StepFly == [action |-> "fly"]
StepNoKind == [target |-> "chrome"]
\* {"action": 5} and {"action": "key", "value": 5}: nonstr names the fields
\* whose JSON value is the number that the field spells
StepKindNumber == [action |-> "5", nonstr |-> {"action"}]
StepKeyNumber == [action |-> "key", value |-> "5", nonstr |-> {"value"}]
StepNonDict == [nondict |-> "hello"]

Steps ==
  {StepOpen, StepDir, StepDel, StepTypeConfirm, StepTypeEmpty, StepKey, StepFly,
   StepClick, StepNoKind, StepKindNumber, StepKeyNumber, StepNonDict,
   [action |-> "shell", target |-> "Format C:"]}

\* isinstance(action.get(k), str), for a key that is present
IsStrField(a, k) == k \notin Get(a, "nonstr", {})

IsDict(a) == "nondict" \notin DOMAIN a

SeqsUpTo(S, n) == UNION {[1..k -> S] : k \in 0..n}

\* The plans the executor is tried on
Plans == SeqsUpTo(Steps, MaxPlanLen)

\* Steps that needs_confirmation is tried on besides those of the catalogue
PlannerSteps ==
  Steps \cup {[action |-> "shell", target |-> "RM -rf x"],
              [action |-> "shell", target |-> "rm"],
              [action |-> "open", target |-> "regedit"],
              [action |-> "type", value |-> "Format", confirm |-> FALSE],
              [action |-> "delete"]}

PlannerPlans == SeqsUpTo(PlannerSteps, MaxPlanLen)

\* The steps and the plans the language model is taken to produce
LlmSteps ==
  {StepOpen, StepDel, StepFly, StepNonDict, [action |-> "shell", target |-> "Format C:"]}

LlmPlans == SeqsUpTo(LlmSteps, MaxPlanLen)

\* ------------------------------------------------------------ planner.py
dangerous_keywords ==
  {"delete", "remove", "format", "rm ", "del ", "registry", "regedit", "system32"}

KeyOrder == <<"action", "target", "value", "thought", "confirm">>

DumpsValue(a, k) ==
  IF k = "confirm" THEN Chars[IF a[k] THEN "true" ELSE "false"]
  ELSE IF ~IsStrField(a, k) THEN Chars[a[k]]
  ELSE <<"\"">> \o Chars[a[k]] \o <<"\"">>

RECURSIVE DumpsItems(_, _, _)
DumpsItems(a, keys, first) ==
  IF keys = <<>> THEN <<>>
  ELSE IF Head(keys) \notin DOMAIN a THEN DumpsItems(a, Tail(keys), first)
  ELSE (IF first THEN <<>> ELSE <<",", " ">>)
         \o <<"\"">> \o Chars[Head(keys)] \o <<"\"", ":", " ">>
         \o DumpsValue(a, Head(keys))
         \o DumpsItems(a, Tail(keys), FALSE)

\* json.dumps(action): '{"action": "shell", "target": "dir"}'
Dumps(a) == <<"{">> \o DumpsItems(a, KeyOrder, TRUE) \o <<"}">>

\* A search of the rendering as json.dumps gives it, not lower-cased
HasKeywordCaseSensitive(a) ==
  \E keyword \in dangerous_keywords : Contains(Chars[keyword], Dumps(a))

HasDangerousKeyword(a) ==
  \E keyword \in dangerous_keywords : Contains(Chars[keyword], Lower(Dumps(a)))

\* HasDangerousKeyword of every step of the catalogue, computed once
KeywordHit == [a \in {s \in PlannerSteps : IsDict(s)} |-> HasDangerousKeyword(a)]

(* needs_confirmation walks the plan in order and returns at the first     *)
(* dangerous action; action.get on a step that is no dict raises           *)
(* AttributeError.  The result is "True", "False" or "raise".              *)
RECURSIVE needs_confirmation(_)
needs_confirmation(plan) ==
  IF plan = <<>> THEN "False"
  ELSE IF ~IsDict(Head(plan)) THEN "raise"
  ELSE IF Get(Head(plan), "confirm", FALSE) THEN "True"
  ELSE IF KeywordHit[Head(plan)] THEN "True"
  ELSE needs_confirmation(Tail(plan))

(* The reply of the language model is a sequence of tokens: prose, white   *)
(* space, a code fence, a json code fence, or one complete JSON value.        *)
TokProse == [tok |-> "prose"]
TokSpace == [tok |-> "space"]
TokFence == [tok |-> "fence"]
TokFenceJson == [tok |-> "fence_json"]
TokError == [tok |-> "Error:"]
TokModelNotFound == [tok |-> "Error: Ollama model not found"]
TokJson(j) == [json |-> j]

IsJsonTok(t) == "json" \in DOMAIN t
IsTok(t, name) == "tok" \in DOMAIN t /\ t.tok = name
\* the text of a json fence begins with the text of a plain fence
HasFence(t) == IsTok(t, "fence") \/ IsTok(t, "fence_json")

(* JSON values: an object (the record of its members), a list of steps, a  *)
(* number, a string, null.                                                  *)
JObjPlan(v) == [obj |-> [plan |-> v]]
JObjOther == [obj |-> [steps |-> <<>>]]
JList(steps) == [list |-> steps]
JNum == [num |-> 5]
JStr == [str |-> "hello"]
JNull == [null |-> TRUE]

IsJObj(j) == "obj" \in DOMAIN j
IsJList(j) == "list" \in DOMAIN j

RECURSIVE LStripToks(_)
LStripToks(r) ==
  IF r # <<>> /\ IsTok(Head(r), "space") THEN LStripToks(Tail(r)) ELSE r

RECURSIVE RStripToks(_)
RStripToks(r) ==
  IF r # <<>> /\ IsTok(r[Len(r)], "space")
    THEN RStripToks(SubSeq(r, 1, Len(r) - 1)) ELSE r

StripToks(r) == RStripToks(LStripToks(r))

\* str.find: index of the first token at or after `from` satisfying P, else 0
FindFenceJson(r, from) ==
  IF \E i \in from..Len(r) : IsTok(r[i], "fence_json")
    THEN CHOOSE i \in from..Len(r) :
           IsTok(r[i], "fence_json") /\ \A j \in from..(i - 1) : ~IsTok(r[j], "fence_json")
    ELSE 0

FindFence(r, from) ==
  IF \E i \in from..Len(r) : HasFence(r[i])
    THEN CHOOSE i \in from..Len(r) :
           HasFence(r[i]) /\ \A j \in from..(i - 1) : ~HasFence(r[j])
    ELSE 0

(* response[start:end] where end is the -1 of find() when no closing fence      *)
(* follows: the slice then stops one short of the end of the text.          *)
Slice(r, open, close) ==
  IF close # 0 THEN SubSeq(r, open + 1, close - 1)
  ELSE SubSeq(r, open + 1, Len(r) - 1)

SliceToFence(r, open) == Slice(r, open, FindFence(r, open + 1))

\* s is the stripped response, json and plain the results of the two finds
BlockOf(s, json, plain) ==
  IF json # 0 THEN StripToks(SliceToFence(s, json))
  ELSE IF plain # 0 THEN StripToks(SliceToFence(s, plain))
  ELSE s

FencesOf(s) == BlockOf(s, FindFenceJson(s, 1), FindFence(s, 1))

ExtractBlock(r) == FencesOf(StripToks(r))

\* json.loads accepts exactly one JSON value
JsonLoads(r) ==
  IF Len(r) = 1 /\ IsJsonTok(r[1]) THEN Some(r[1].json) ELSE NoneV

(* _parse_plan: [plan |-> value returned, last_error |-> the planner     *)
(* last_error afterwards].  The value returned is a JSON value.             *)
\* the part of _parse_plan after json.loads: data is None when it raised
PlanOfData(data, last_error) ==
  IF IsNone(data)
    THEN [plan |-> JList(<<>>), last_error |-> "Failed to parse plan JSON"]
  ELSE IF IsJObj(TheValue(data)) /\ "plan" \in DOMAIN TheValue(data).obj
    THEN [plan |-> TheValue(data).obj.plan, last_error |-> last_error]
  ELSE IF IsJList(TheValue(data))
    THEN [plan |-> TheValue(data), last_error |-> last_error]
  ELSE [plan |-> JList(<<>>), last_error |-> last_error]

parse_plan(response, last_error) ==
  PlanOfData(JsonLoads(ExtractBlock(response)), last_error)

\* len(plan) raises TypeError on a number or None
HasLen(j) == IsJList(j) \/ "str" \in DOMAIN j

StartsWithError(r) ==
  r # <<>> /\ (IsTok(r[1], "Error:") \/ IsTok(r[1], "Error: Ollama model not found"))

ErrorText(r) ==
  IF IsTok(r[1], "Error: Ollama model not found")
    THEN "Error: Ollama model not found. Install one with: ollama pull llama3.2"
    ELSE "Error: completion failed"

\* logger.info(f"Generated plan with {len(plan)} steps"); return plan
LoggedPlan(parsed) ==
  IF HasLen(parsed.plan) THEN parsed
  ELSE [plan |-> JList(<<>>), last_error |-> "object has no len()"]

(* create_plan: llm = [available, reply].  Returns the plan (a JSON value) *)
(* and the last_error of the planner afterwards; every path sets it.       *)
create_plan(llm) ==
  IF ~llm.available
    THEN [plan |-> JList(<<>>), last_error |-> "LLM not available for planning"]
  ELSE IF StartsWithError(llm.reply)
    THEN [plan |-> JList(<<>>), last_error |-> ErrorText(llm.reply)]
  ELSE LoggedPlan(parse_plan(llm.reply, ""))


\* ------------------------------------------------------------ executor.py
(* What the collaborators of one step answer.  "ok": the accessibility     *)
(* lookup finds the element, the shell exits with 0, the launch succeeds.  *)
(* "alt": the accessibility lookup finds nothing and the vision lookup     *)
(* finds the element; the shell exits with 1.  "fail": both lookups find   *)
(* nothing, the shell exits with 1, the launch fails.  "raise": the        *)
(* accessibility lookup raises.  The input simulator swallows its own      *)
(* errors, so type and key steps do not depend on the answer.              *)
StepEnvs == {"ok", "alt", "fail", "raise"}

Outcome(ok, msg) == [success |-> ok, message |-> msg]

(* The collaborators of a click, by the answer e of the step: with "ok"   *)
(* the accessibility lookup finds the target (and so would the vision      *)
(* lookup), with "alt" only the vision lookup finds it, with "fail"        *)
(* neither does.                                                            *)
\* A click that asks the vision tier first
ClickPrefersVision(action, e) ==
  IF e \in {"ok", "alt"}
    THEN [success |-> TRUE, message |-> <<"Clicked at", "vision">>,
          coordinates |-> "vision"]
  ELSE Outcome(FALSE, <<"Could not find:", Get(action, "target", "")>>)

\* The lookups _action_click makes for a named target, in order
click_lookups(action, e) ==
  IF e = "ok" THEN <<"accessibility">> ELSE <<"accessibility", "vision">>

action_click(action, e) ==
  LET target == Get(action, "target", "")
  IN  IF e = "ok"
        THEN [success |-> TRUE, message |-> <<"Clicked at", "accessibility">>,
              coordinates |-> "accessibility"]
      ELSE IF e = "alt"
        THEN [success |-> TRUE, message |-> <<"Clicked at", "vision">>,
              coordinates |-> "vision"]
      ELSE Outcome(FALSE, <<"Could not find:", target>>)

action_type(action) ==
  LET text == Get(action, "value", "")
  IN  IF text = "" THEN Outcome(FALSE, <<"No text to type">>)
      ELSE Outcome(TRUE, <<"Typed:", text>>)

action_key(action) ==
  LET key == Get(action, "value", "")
  IN  IF key = "" THEN Outcome(FALSE, <<"No key specified">>)
      ELSE Outcome(TRUE, <<"Pressed:", key>>)

\* command = action.get("target", "") or action.get("value", "")
TargetOrValue(action) ==
  IF Get(action, "target", "") # "" THEN action.target ELSE Get(action, "value", "")

\* Config._default_config: safety.blacklist_commands
blacklist == {"format", "rm -rf /", "del /f /s /q C:\\", "Format-Volume"}

\* ShellExecutor.is_dangerous of the command of every step, computed once
is_dangerous ==
  [c \in {TargetOrValue(a) : a \in {x \in PlannerSteps : IsDict(x)}} |->
     \E blacklisted \in blacklist : Contains(Lower(Chars[blacklisted]), Lower(Chars[c]))]

\* A shell that runs every command it is given
RunsEveryCommand(command, e) ==
  [code |-> IF e \in {"ok", "alt"} THEN 0 ELSE 1, stdout |-> "", stderr |-> ""]

(* execute_powershell: the exit status and the output.  A blacklisted      *)
(* command is answered before any process is started.  By the answer e of  *)
(* the step the process ends with status 0 and no output ("ok"), with      *)
(* status 0 and text on stderr ("alt"), with status 1 and text on stdout   *)
(* ("fail"), or does not end in time ("raise").                             *)
execute_powershell(command, e) ==
  IF is_dangerous[command]
    THEN [code |-> -1, stdout |-> "", stderr |-> "Command blocked for safety"]
  ELSE CASE e = "ok" -> [code |-> 0, stdout |-> "", stderr |-> ""]
         [] e = "alt" -> [code |-> 0, stdout |-> "", stderr |-> "warning"]
         [] e = "fail" -> [code |-> 1, stdout |-> "done", stderr |-> ""]
         [] OTHER -> [code |-> -1, stdout |-> "", stderr |-> "Command timed out"]

\* A shell step that takes any output on stderr for a failure
ShellFailsOnStderr(command, ran) ==
  IF command = "" THEN Outcome(FALSE, <<"No command specified">>)
  ELSE [success |-> (ran.code = 0 /\ ran.stderr = ""),
        message |-> <<"Executed:", command>>,
        output |-> ran.stdout, error |-> ran.stderr, return_code |-> ran.code]

\* ran: what execute_powershell returns for the command
ShellOutcome(command, ran) ==
  IF command = "" THEN Outcome(FALSE, <<"No command specified">>)
  ELSE [success |-> (ran.code = 0), message |-> <<"Executed:", command>>,
        output |-> ran.stdout, error |-> ran.stderr, return_code |-> ran.code]

action_shell(action, e) ==
  ShellOutcome(TargetOrValue(action), execute_powershell(TargetOrValue(action), e))

action_open(action, e) ==
  LET app == TargetOrValue(action)
      success == e # "fail"
  IN  IF app = "" THEN Outcome(FALSE, <<"No application specified">>)
      ELSE Outcome(success, <<IF success THEN "Opened:" ELSE "Failed to open:", app>>)

\* action.get("action", "").lower() of every step of the catalogue whose
\* kind is a str
ActionType ==
  [a \in {s \in Steps : IsDict(s)} |-> Lower(Chars[Get(a, "action", "")])]

(* The exception that leaves _execute_action, "" when none does: a kind    *)
(* that is no str has no lower(), `"+" in key` needs an iterable key, and  *)
(* the lookup of a click target may raise.                                  *)
RaisedError(action, e) ==
  IF ~IsStrField(action, "action") THEN "AttributeError: no attribute lower"
  ELSE IF ActionType[action] = Chars["key"] /\ ~IsStrField(action, "value")
    THEN "TypeError: argument is not iterable"
  ELSE IF ActionType[action] = Chars["click"] /\ e = "raise" THEN "lookup failed"
  ELSE ""

\* The step raises inside _execute_action
StepRaises(action, e) == RaisedError(action, e) # ""

\* A dispatcher that fails on every action without naming its kind
DispatchWithoutKindName(action, e, action_type_) ==
  Outcome(FALSE, <<"Unknown action">>)

Dispatch(action, e, action_type_) ==
  CASE action_type_ = Chars["click"] -> action_click(action, e)
    [] action_type_ = Chars["type"] -> action_type(action)
    [] action_type_ = Chars["key"] -> action_key(action)
    [] action_type_ = Chars["shell"] -> action_shell(action, e)
    [] action_type_ = Chars["open"] -> action_open(action, e)
    [] OTHER -> Outcome(FALSE, <<"Unknown action:", action_type_>>)

execute_action(action, e) == Dispatch(action, e, ActionType[action])

\* One turn of the loop of execute_plan: the try block and its except clause
StepResult(action, e) ==
  IF StepRaises(action, e) THEN Outcome(FALSE, <<RaisedError(action, e)>>)
  ELSE execute_action(action, e)

\* The steps the loop reaches: it is left by the exception that
\* action.get raises on a step that is no dict
RECURSIVE Reached(_)
Reached(plan) ==
  IF plan = <<>> \/ ~IsDict(Head(plan)) THEN <<>>
  ELSE <<Head(plan)>> \o Reached(Tail(plan))

\* A loop that takes the steps from the last to the first
RECURSIVE RunStepsBackwards(_, _)
RunStepsBackwards(plan, env) ==
  IF plan = <<>> THEN <<>>
  ELSE <<StepResult(plan[Len(plan)], env[Len(env)])>>
         \o RunStepsBackwards(SubSeq(plan, 1, Len(plan) - 1),
                              SubSeq(env, 1, Len(env) - 1))

RECURSIVE RunSteps(_, _)
RunSteps(plan, env) ==
  IF plan = <<>> THEN <<>>
  ELSE <<StepResult(Head(plan), Head(env))>> \o RunSteps(Tail(plan), Tail(env))

\* A count that takes every result for a success
CountEveryResult(results) == Len(results)

\* sum(1 for r in results if r.get("success", False))
RECURSIVE CountSuccess(_)
CountSuccess(results) ==
  IF results = <<>> THEN 0
  ELSE (IF Get(Head(results), "success", FALSE) THEN 1 ELSE 0)
         + CountSuccess(Tail(results))

ReportOf(results, success_count) ==
  [success |-> (success_count = Len(results)),
   total_steps |-> Len(results),
   successful_steps |-> success_count,
   results |-> results]

Summarize(results) == ReportOf(results, CountSuccess(results))

\* The results of a loop that is left at the first step that fails
RECURSIVE RunUntilFailure(_, _)
RunUntilFailure(plan, env) ==
  IF plan = <<>> THEN <<>>
  ELSE IF ~Get(StepResult(Head(plan), Head(env)), "success", FALSE)
    THEN <<StepResult(Head(plan), Head(env))>>
  ELSE <<StepResult(Head(plan), Head(env))>> \o RunUntilFailure(Tail(plan), Tail(env))

\* An execute_plan that aborts the plan at its first failing step
LoopAbortsOnFailure(plan, env, reached) ==
  IF Len(reached) < Len(plan)
    THEN [raised |-> TRUE, dispatched |-> reached, report |-> NoneV]
  ELSE [raised |-> FALSE,
        dispatched |-> SubSeq(plan, 1, Len(RunUntilFailure(plan, env))),
        report |-> Some(Summarize(RunUntilFailure(plan, env)))]

(* execute_plan(plan) with env[i] the answer of the collaborators of step  *)
(* i.  raised: an exception leaves execute_plan; dispatched: the actions   *)
(* given to _execute_action, in order; report: the dict returned.          *)
\* reached: the steps the loop gets to
LoopOver(plan, env, reached) ==
  IF Len(reached) < Len(plan)
    THEN [raised |-> TRUE, dispatched |-> reached, report |-> NoneV]
  ELSE [raised |-> FALSE, dispatched |-> plan,
        report |-> Some(Summarize(RunSteps(plan, env)))]

execute_plan(plan, env) ==
  IF plan = <<>>
    THEN [raised |-> FALSE, dispatched |-> <<>>,
          report |-> Some([success |-> FALSE, message |-> <<"Empty plan">>])]
  ELSE LoopOver(plan, env, Reached(plan))

\* ------------------------------------------------------ plugin_manager.py
weather_keywords == {"weather", "temperature", "forecast", "rain", "sunny", "cloudy"}

\* WeatherSkill.can_handle
can_handle(user_input) ==
  \E keyword \in weather_keywords : Contains(Chars[keyword], Lower(Chars[user_input]))

\* What the speech recogniser may hear
Utterances ==
  {"confirm", " Yes ", "cancel", "STOP", "banana", "Weather today"}

\* can_handle of every utterance, computed once
CanHandle == [u \in Utterances |-> can_handle(u)]

WeatherSkill(enabled) == [name |-> "WeatherSkill", enabled |-> enabled]

\* get_skill_for_input: the first enabled skill that can handle the input
get_skill_for_input(registry, user_input) ==
  LET hits == {i \in 1..Len(registry) :
                 registry[i].enabled /\ CanHandle[user_input]}
  IN  IF hits = {} THEN NoneV
      ELSE Some(registry[CHOOSE i \in hits : \A j \in hits : i <= j])

\* An execute_skill whose except clause returns None
ExecuteSkillSwallowsError(registry, user_input, how) ==
  IF IsNone(get_skill_for_input(registry, user_input)) \/ how = "raise" THEN NoneV
  ELSE Some([success |-> (how = "ok"), response |-> <<"skill response">>,
             data |-> Some("WeatherSkill")])

(* execute_skill: None when no skill matches, else the dict the skill      *)
(* returns, or the error dict of the except clause when it raises.  how is *)
(* what Skill.execute does: "ok", "fail" (success False) or "raise".       *)
SkillOutcomes == {"ok", "fail", "raise"}

\* skill: what get_skill_for_input returned
RunSkill(skill, how) ==
  IF IsNone(skill) THEN NoneV
  ELSE IF how = "raise"
    THEN Some([success |-> FALSE, response |-> <<"Error executing skill:">>,
               data |-> NoneV])
  ELSE Some([success |-> (how = "ok"), response |-> <<"skill response">>,
             data |-> Some(TheValue(skill).name)])

execute_skill(registry, user_input, how) ==
  RunSkill(get_skill_for_input(registry, user_input), how)


\* ------------------------------------------------------------ ai_backend.py
(* The fields of AIBackend are gathered in a record self.  A handler       *)
(* returns the fields afterwards, the response (None when an exception     *)
(* leaves the handler), the collaborators it called, the actions it gave   *)
(* to the dispatcher and the plan create_plan returned (None when it was   *)
(* not called).                                                             *)
Returned(self, resp, calls, dispatched) ==
  [self |-> self, resp |-> Some(resp), raised |-> FALSE, calls |-> calls,
   dispatched |-> dispatched, made |-> NoneV]

Raised(self, calls, dispatched) ==
  [self |-> self, resp |-> NoneV, raised |-> TRUE, calls |-> calls,
   dispatched |-> dispatched, made |-> NoneV]

confirm_tokens == {"confirm", "yes", "proceed", "continue", "confirm execute"}
cancel_tokens == {"cancel", "stop", "no", "abort"}

\* normalized = text.strip().lower()
Normalized(text) == Lower(Strip(Chars[text]))

\* Normalized of every utterance, computed once
NormalizedText == [u \in Utterances |-> Normalized(u)]

\* normalized in tokens
InTokens(text, tokens) == \E tk \in tokens : NormalizedText[text] = Chars[tk]

ClearSession(self) ==
  [self EXCEPT !.pending_plan = NoneV, !.pending_command_text = "",
               !.pending_confirmations = 0]

\* A response to a plan that was run which hands a plan back to the GUI
ExecutedResponseWithPlan(report) ==
  [type |-> "response",
   status |-> IF Get(report, "success", FALSE) THEN "success" ELSE "partial",
   message |-> <<"Executed", Get(report, "successful_steps", 0), "/",
                 Get(report, "total_steps", 0), "steps">>,
   result |-> report,
   plan |-> Get(report, "plan", <<[action |-> "wait", value |-> "1"]>>)]

\* The response of both places that run a plan
ExecutedResponse(report) ==
  [type |-> "response",
   status |-> IF Get(report, "success", FALSE) THEN "success" ELSE "partial",
   message |-> <<"Executed", Get(report, "successful_steps", 0), "/",
                 Get(report, "total_steps", 0), "steps">>,
   result |-> report]

\* A cancel branch that answers without dropping the session
CancelKeepsSession(self) ==
  Returned(self,
           [type |-> "response", status |-> "success",
            message |-> <<"Dangerous task canceled">>],
           {"gate"}, <<>>)

\* run: what execute_plan did; the caller answers with its report
Executed(self, calls, run) ==
  IF run.raised THEN Raised(self, calls, run.dispatched)
  ELSE Returned(self, ExecutedResponse(TheValue(run.report)), calls, run.dispatched)

\* if normalized in cancel_tokens: lines 151-161
CancelBranch(self) ==
  Returned(ClearSession(self),
           [type |-> "response", status |-> "success",
            message |-> <<"Dangerous task canceled">>],
           {"gate"}, <<>>)

\* A count that takes one affirmative token for two
CountsTwice(self) ==
  Returned([self EXCEPT !.pending_confirmations = self.pending_confirmations + 2],
           [type |-> "response", status |-> "success",
            message |-> <<"Confirmation", self.pending_confirmations + 2, "/",
                          self.required_confirmations, "received">>,
            awaiting_confirmation |-> TRUE,
            remaining_confirmations |->
              self.required_confirmations - (self.pending_confirmations + 2)],
           {"gate"}, <<>>)

\* remaining > 0: lines 167-176
CountBranch(self) ==
  LET count == self.pending_confirmations + 1
      remaining == self.required_confirmations - count
  IN  Returned([self EXCEPT !.pending_confirmations = count],
               [type |-> "response", status |-> "success",
                message |-> <<"Confirmation", count, "/",
                              self.required_confirmations, "received">>,
                awaiting_confirmation |-> TRUE,
                remaining_confirmations |-> remaining],
               {"gate"}, <<>>)

\* the threshold is reached: lines 178-201
ReleasePlan(self, plan, env) ==
  IF self.brain /\ plan # <<>>
    THEN Executed(ClearSession(self), {"gate", "executor"},
                  execute_plan(plan, env.steps))
  ELSE Returned(ClearSession(self),
                [type |-> "response", status |-> "error",
                 message |-> <<"No pending plan to execute">>],
                {"gate"}, <<>>)

\* A release that hands over the first step of the pending plan only
ReleaseFirstStep(self, env) ==
  ReleasePlan(self, SubSeq(TheValue(self.pending_plan), 1, 1), env)

\* plan = self.pending_plan or []
ReleaseBranch(self, env) ==
  ReleasePlan(self,
              IF IsNone(self.pending_plan) THEN <<>> ELSE TheValue(self.pending_plan),
              env)

\* A re-prompt that starts the count of confirmations over
RepromptStartsOver(self) ==
  Returned([self EXCEPT !.pending_confirmations = 0],
           [type |-> "response", status |-> "error",
            message |-> <<"Awaiting confirmation. Say confirm or cancel.">>,
            awaiting_confirmation |-> TRUE,
            remaining_confirmations |-> self.required_confirmations],
           {"gate"}, <<>>)

\* neither a cancel nor a confirm token: lines 203-212
RepromptBranch(self) ==
  Returned(self,
           [type |-> "response", status |-> "error",
            message |-> <<"Awaiting confirmation. Say confirm or cancel.">>,
            awaiting_confirmation |-> TRUE,
            remaining_confirmations |->
              self.required_confirmations - self.pending_confirmations],
           {"gate"}, <<>>)

\* A gate that releases the plan at the first affirmative token
ReleasesAtFirstToken(self, text, env) ==
  IF InTokens(text, cancel_tokens) THEN CancelBranch(self)
  ELSE IF InTokens(text, confirm_tokens) THEN ReleaseBranch(self, env)
  ELSE RepromptBranch(self)

handle_confirmation(self, text, env) ==
  IF InTokens(text, cancel_tokens) THEN CancelBranch(self)
  ELSE IF InTokens(text, confirm_tokens)
    THEN IF self.required_confirmations - (self.pending_confirmations + 1) > 0
           THEN CountBranch(self)
         ELSE ReleaseBranch(self, env)
  ELSE RepromptBranch(self)

\* A router without the `if plan:` test
AnyPlanIsTruthy(j) == TRUE

\* `if plan:` on the value create_plan returned: a list or a str
Truthy(j) == IF IsJList(j) THEN j.list # <<>> ELSE j.str # ""

\* needs_confirm = self.planner.needs_confirmation(plan); iterating a str
\* yields its characters, which have no get
NeedsConfirm(j) == IF IsJList(j) THEN needs_confirmation(j.list) ELSE "raise"

PlanErrorMessage(plan_error) ==
  IF \/ Contains(Chars["ollama model not found"], Lower(Chars[plan_error]))
     \/ Contains(Chars["model not found"], Lower(Chars[plan_error]))
    THEN <<"Ollama model missing. Run: ollama pull llama3.2">>
    ELSE <<"Could not create action plan">>

LastErrors ==
  {"", "LLM not available for planning", "Failed to parse plan JSON",
   "Error: Ollama model not found. Install one with: ollama pull llama3.2",
   "Error: completion failed", "object has no len()"}

\* PlanErrorMessage of every last_error, computed once
UserMessage == [e \in LastErrors |-> PlanErrorMessage(e)]

\* A router that asks for confirmations without keeping the plan
AskWithoutKeepingPlan(self, text, plan) ==
  Returned(self,
           [type |-> "response", status |-> "success",
            message |-> <<"Dangerous action requires",
                          self.required_confirmations, "confirmations">>,
            needs_confirmation |-> TRUE,
            awaiting_confirmation |-> TRUE,
            remaining_confirmations |-> self.required_confirmations],
           {"skills", "planner"}, <<>>)

\* A router that opens the session and sends the dangerous plan along
OpenSessionSendsPlan(self, text, plan) ==
  Returned([self EXCEPT !.pending_plan = Some(plan),
                        !.pending_command_text = text,
                        !.pending_confirmations = 0],
           [type |-> "response", status |-> "success",
            message |-> <<"Dangerous action requires",
                          self.required_confirmations, "confirmations">>,
            plan |-> plan,
            needs_confirmation |-> TRUE,
            awaiting_confirmation |-> TRUE,
            remaining_confirmations |-> self.required_confirmations],
           {"skills", "planner"}, <<>>)

\* if needs_confirm: lines 251-271
OpenSession(self, text, plan) ==
  Returned([self EXCEPT !.pending_plan = Some(plan),
                        !.pending_command_text = text,
                        !.pending_confirmations = 0],
           [type |-> "response", status |-> "success",
            message |-> <<"Dangerous action requires",
                          self.required_confirmations, "confirmations">>,
            needs_confirmation |-> TRUE,
            awaiting_confirmation |-> TRUE,
            remaining_confirmations |-> self.required_confirmations],
           {"skills", "planner"}, <<>>)

\* A router that answers a safe plan without the plan
AnswerWithoutPlan(self, text, plan) ==
  Returned(self,
           [type |-> "response", status |-> "success",
            message |-> <<"Command:", text>>,
            needs_confirmation |-> FALSE],
           {"skills", "planner"}, <<>>)

\* the plan is not dangerous: lines 273-282
HandPlanToCaller(self, text, plan) ==
  Returned(self,
           [type |-> "response", status |-> "success",
            message |-> <<"Command:", text>>,
            plan |-> plan,
            needs_confirmation |-> FALSE],
           {"skills", "planner"}, <<>>)

\* create_plan returned an empty plan: lines 284-297
NoPlan(self) ==
  Returned(self,
           [type |-> "response", status |-> "error",
            message |-> UserMessage[self.last_error]],
           {"skills", "planner"}, <<>>)

\* The part of _process_transcribed_text after the skills: lines 245-306
\* plan: what create_plan returned; danger: what needs_confirmation did
RoutePlan(self, text, plan, danger) ==
  IF ~Truthy(plan) THEN NoPlan(self)
  ELSE IF danger = "raise" THEN Raised(self, {"skills", "planner"}, <<>>)
  ELSE IF danger = "True" THEN OpenSession(self, text, plan.list)
  ELSE HandPlanToCaller(self, text, plan.list)

WithMade(out, plan) == [out EXCEPT !.made = Some(plan)]

\* made: what create_plan returned and the last_error it left
RouteMade(self, text, made) ==
  WithMade(RoutePlan([self EXCEPT !.last_error = made.last_error], text,
                     made.plan, NeedsConfirm(made.plan)),
           made.plan)

route_to_planner(self, text, env) ==
  IF ~self.brain
    THEN Returned(self, [type |-> "response", status |-> "success",
                         message |-> <<"Transcribed:", text>>], {}, <<>>)
  ELSE RouteMade(self, text, create_plan(env.llm))

\* A gate that captures the input only once a confirmation was counted
GateAfterFirstConfirmation(self) ==
  ~IsNone(self.pending_plan) /\ self.pending_confirmations > 0

\* if self.pending_plan is not None: line 217
SessionOpen(self) == ~IsNone(self.pending_plan)

\* if plugin_result: lines 232-243
SkillResponse(self, plugin_result) ==
  Returned(self,
           [type |-> "response",
            status |-> IF Get(plugin_result, "success", FALSE)
                         THEN "success" ELSE "error",
            message |-> Get(plugin_result, "response", <<>>),
            plugin_data |-> Get(plugin_result, "data", NoneV)],
           {"skills", "skill"}, <<>>)

\* plugin_result: None, or what execute_skill returned
AfterSkills(self, text, env, plugin_result) ==
  IF ~IsNone(plugin_result) THEN SkillResponse(self, TheValue(plugin_result))
  ELSE route_to_planner(self, text, env)

process_transcribed_text(self, text, env) ==
  IF SessionOpen(self) THEN handle_confirmation(self, text, env)
  ELSE AfterSkills(self, text, env,
                   IF self.brain THEN execute_skill(self.skills, text, env.skill)
                   ELSE NoneV)

\* A plain response that also ends the confirmation session
PlainEndsSession(self, status, msg) ==
  Returned([self EXCEPT !.pending_plan = NoneV, !.pending_command_text = "",
                        !.pending_confirmations = 0],
           [type |-> "response", status |-> status, message |-> msg], {}, <<>>)

Plain(self, status, msg) ==
  Returned(self, [type |-> "response", status |-> status, message |-> msg], {}, <<>>)

\* elif cmd_type == "execute_plan": lines 383-414
ExecuteCommandPlan(self, plan, env) ==
  IF self.brain /\ plan # <<>>
    THEN Executed(self, {"executor"}, execute_plan(plan, env.steps))
  ELSE Plain(self, "error", <<"No plan to execute or executor not available">>)

ExecutePlanCommand(self, command, env) ==
  ExecuteCommandPlan(self, Get(command, "plan", <<>>), env)

(* _process_command.  env.audio is what the recorder and the transcriber   *)
(* give: "started" or "failed" for start_recording; "no_audio", "no_text"  *)
(* or "text" (with env.text the transcription) for stop_recording.          *)
process_command(self, command, env) ==
  LET cmd_type == Get(command, "type", "unknown")
  IN  CASE cmd_type = "test" -> Plain(self, "success", <<"AI Backend is operational!">>)
        [] cmd_type = "start_recording" ->
             IF ~self.audio THEN Plain(self, "error", <<"Audio recorder not available">>)
             ELSE IF env.audio = "started" /\ ~self.recording
               THEN Plain([self EXCEPT !.recording = TRUE], "success",
                          <<"Recording started">>)
             ELSE Plain(self, "error", <<"Failed to start recording">>)
        [] cmd_type = "stop_recording" ->
             IF ~self.audio THEN Plain(self, "error", <<"Audio systems not available">>)
             ELSE IF ~self.recording \/ env.audio = "no_audio"
               THEN Plain([self EXCEPT !.recording = FALSE], "error",
                          <<"No audio recorded">>)
             ELSE IF env.audio = "no_text"
               THEN Plain([self EXCEPT !.recording = FALSE], "error",
                          <<"Could not transcribe audio">>)
             ELSE process_transcribed_text([self EXCEPT !.recording = FALSE],
                                           env.text, env)
        [] cmd_type = "transcribe" ->
             Plain(self, "success", <<"Processing:", Get(command, "text", "")>>)
        [] cmd_type = "execute_plan" -> ExecutePlanCommand(self, command, env)
        [] cmd_type = "file_drop" ->
             Returned(self, [type |-> "response", status |-> "success",
                             message |-> <<"Received", "file(s)">>,
                             files |-> Get(command, "files", <<>>)], {}, <<>>)
        [] OTHER -> Plain(self, "error", <<"Unknown command type:", cmd_type>>)

\* ------------------------------------------------------------- environment
Replies ==
  {<<TokJson(JList(p))>> : p \in LlmPlans}
    \cup {<<>>, <<TokError>>, <<TokModelNotFound>>, <<TokProse>>,
          <<TokJson(JNum)>>, <<TokJson(JNull)>>, <<TokJson(JStr)>>,
          <<TokJson(JObjOther)>>, <<TokJson(JObjPlan(JStr))>>,
          <<TokJson(JObjPlan(JNull))>>,
          <<TokSpace, TokProse, TokFenceJson, TokSpace,
            TokJson(JObjPlan(JList(<<StepOpen>>))), TokFence, TokProse>>,
          <<TokFence, TokJson(JList(<<StepDel>>)), TokFence>>,
          <<TokFenceJson, TokJson(JList(<<StepOpen>>))>>}

\* The client without litellm: is_available() is False
LlmDown == [available |-> FALSE, reply |-> <<>>]

LLMs == {LlmDown} \cup {[available |-> TRUE, reply |-> r] : r \in Replies}

DefaultEnv ==
  [audio |-> "text", text |-> "", skill |-> "ok", llm |-> LlmDown, steps |-> <<>>]

StepEnvSeqs(n) == [1..n -> StepEnvs]

\* The answers that matter to the routing of one utterance
TextEnvs(self, text, llms) ==
  IF ~IsNone(self.pending_plan)
    THEN {[DefaultEnv EXCEPT !.text = text, !.steps = s] :
            s \in StepEnvSeqs(Len(TheValue(self.pending_plan)))}
  ELSE IF self.brain /\ ~IsNone(get_skill_for_input(self.skills, text))
    THEN {[DefaultEnv EXCEPT !.text = text, !.skill = how] : how \in SkillOutcomes}
  ELSE {[DefaultEnv EXCEPT !.text = text, !.llm = llm] : llm \in llms}

\* The answers that matter to one command
Envs(self, command, llms) ==
  CASE command.type = "execute_plan" ->
         {[DefaultEnv EXCEPT !.steps = s] : s \in StepEnvSeqs(Len(command.plan))}
    [] command.type = "start_recording" ->
         {[DefaultEnv EXCEPT !.audio = a] : a \in {"started", "failed"}}
    [] command.type = "stop_recording" ->
         IF ~self.audio \/ ~self.recording THEN {DefaultEnv}
         ELSE {[DefaultEnv EXCEPT !.audio = a] : a \in {"no_audio", "no_text"}}
                \cup UNION {TextEnvs(self, text, llms) : text \in Utterances}
    [] OTHER -> {DefaultEnv}

\* ------------------------------------------------------------------- state
VARIABLES
  command_queue,          \* GUI -> backend
  response_queue,         \* backend -> GUI
  running,                \* AIBackend.running: the loop of run() is alive
  pc,                     \* "poll": before queue.get; "put": before queue.put
  response,               \* the response _process_command returned
  pending_plan, pending_command_text, pending_confirmations,
  required_confirmations,
  last_error,             \* ActionPlanner.last_error
  brain,                  \* _init_brain succeeded: planner, executor, plugins
  audio,                  \* _init_audio succeeded: recorder, stt, tts
  skills,                 \* PluginManager.skills, in insertion order
  recording,              \* AudioRecorder.is_recording
  is_recording,           \* FloatingWidget.is_recording
  toggles,                \* number of presses of the record button so far
  drops,                  \* number of file drops so far
  wakes,                  \* number of wake word detections so far
  llm_replies,            \* number of replies the language model gave so far
  sessions,               \* number of confirmation sessions opened so far
  affirmed,               \* affirmative utterances heard by the open session
  cancelled,              \* the sessions that were cancelled
  last,                   \* what the last processed command did
  probe                   \* a direct call of ActionExecutor.execute_plan

vars ==
  <<command_queue, response_queue, running, pc, response, pending_plan,
    pending_command_text, pending_confirmations, required_confirmations,
    last_error, brain, audio, skills, recording, is_recording, toggles, drops,
    wakes, llm_replies, sessions, affirmed, cancelled, last, probe>>

Self ==
  [pending_plan |-> pending_plan, pending_command_text |-> pending_command_text,
   pending_confirmations |-> pending_confirmations,
   required_confirmations |-> required_confirmations, last_error |-> last_error,
   brain |-> brain, audio |-> audio, skills |-> skills, recording |-> recording]

\* int(config.get("safety.dangerous_confirmation_count", 3) or 3)
RequiredFromConfig(v) == IF v = 0 THEN 3 ELSE v

\* The values of the configuration entry, which nothing validates; 0 also
\* stands for an absent entry, which config.get replaces by 3
ConfigValues == -1..MaxConfirm

\* The confirmation session as the three fields that hold it
Session(self) ==
  [pending_plan |-> self.pending_plan,
   pending_command_text |-> self.pending_command_text,
   pending_confirmations |-> self.pending_confirmations]

NoSession == [pending_plan |-> NoneV, pending_command_text |-> "",
              pending_confirmations |-> 0]

(* What the last processed command did: its type, the utterance it carried *)
(* (None when it carried none), the session before it, the collaborators   *)
(* called, the actions dispatched, whether an exception ended it, its      *)
(* response, the session open before it (0: none), the number of           *)
(* affirmative utterances that session had heard, this one included, the   *)
(* plan the command carried, the language model and the skill behaviour it *)
(* met and the plan create_plan returned.                                   *)
NoLast ==
  [type |-> "", text |-> NoneV, pre |-> NoSession, calls |-> {}, dispatched |-> <<>>,
   raised |-> FALSE, resp |-> NoneV, sid |-> 0, heard |-> 0, plan |-> <<>>,
   llm |-> NoneV, skill |-> "", made |-> NoneV]

InitBackend ==
  /\ command_queue = <<[type |-> "test"]>>
  /\ response_queue = <<>>
  /\ running = TRUE
  /\ pc = "poll"
  /\ response = NoneV
  /\ pending_plan = NoneV
  /\ pending_command_text = ""
  /\ pending_confirmations = 0
  /\ audio \in BOOLEAN
  /\ brain \in BOOLEAN
  /\ required_confirmations \in
       IF audio THEN {RequiredFromConfig(v) : v \in ConfigValues} ELSE {3}
  /\ last_error = ""
  /\ skills \in IF brain THEN {<<>>, <<WeatherSkill(TRUE)>>} ELSE {<<>>}
  /\ recording = FALSE
  /\ is_recording = FALSE
  /\ toggles = 0
  /\ drops = 0
  /\ wakes = 0
  /\ llm_replies = 0
  /\ sessions = 0
  /\ affirmed = 0
  /\ cancelled = {}
  /\ last = NoLast

Init == InitBackend /\ probe = NoneV


\* The utterances of the catalogue that are affirmative and cancel tokens
AffirmativeTexts == {"confirm", " Yes "}
CancelTexts == {"cancel", "STOP"}

\* The utterance a command carries into _process_transcribed_text, if any
Heard(self, command, env) ==
  IF command.type = "stop_recording" /\ self.audio /\ self.recording
       /\ env.audio = "text"
    THEN Some(env.text) ELSE NoneV

(* The user and the wake word act on a settled system: every command put  *)
(* so far has been answered and the answer has been handled.                *)
Settled == command_queue = <<>> /\ response_queue = <<>> /\ pc = "poll"

\* ----------------------------------------------------------------- backend
\* A loop that goes back to the queue without putting the response
BackToQueue(raised) == "poll"

\* Where the loop of run is after _process_command: an exception leaves the
\* loop, a response is put before the next command is taken
AfterCommand(raised) == IF raised THEN "poll" ELSE "put"

(* What a turn of the loop leaves: out is what _process_command did with  *)
(* the command and text the utterance the command carried, if any.          *)
Deliver(command, env, out, text, was_open) ==
  /\ command_queue' = Tail(command_queue)
  /\ pending_plan' = out.self.pending_plan
  /\ pending_command_text' = out.self.pending_command_text
  /\ pending_confirmations' = out.self.pending_confirmations
  /\ last_error' = out.self.last_error
  /\ recording' = out.self.recording
  /\ running' = ~out.raised
  /\ pc' = AfterCommand(out.raised)
  /\ response' = out.resp
  /\ sessions' = IF ~was_open /\ ~IsNone(out.self.pending_plan)
                   THEN sessions + 1 ELSE sessions
  /\ affirmed' = IF ~was_open /\ ~IsNone(out.self.pending_plan) THEN 0
                 ELSE IF was_open /\ ~IsNone(text) /\ TheValue(text) \in AffirmativeTexts
                   THEN affirmed + 1
                 ELSE affirmed
  /\ cancelled' = IF was_open /\ ~IsNone(text) /\ TheValue(text) \in CancelTexts
                    THEN cancelled \cup {sessions} ELSE cancelled
  /\ llm_replies' =
       IF "planner" \in out.calls /\ env.llm.available
         THEN llm_replies + 1 ELSE llm_replies
  /\ last' = [type |-> command.type, text |-> text, pre |-> Session(Self),
              calls |-> out.calls, dispatched |-> out.dispatched,
              raised |-> out.raised, resp |-> out.resp,
              sid |-> IF was_open THEN sessions ELSE 0,
              heard |-> IF was_open /\ ~IsNone(text)
                             /\ TheValue(text) \in AffirmativeTexts
                          THEN affirmed + 1 ELSE affirmed,
              plan |-> Get(command, "plan", <<>>),
              llm |-> IF "planner" \in out.calls THEN Some(env.llm) ELSE NoneV,
              skill |-> IF "skill" \in out.calls THEN env.skill ELSE "",
              made |-> out.made]

\* One turn of the loop of AIBackend.run up to the call of _process_command
BackendProcess ==
  /\ running
  /\ pc = "poll"
  /\ command_queue # <<>>
  /\ \E env \in Envs(Self, Head(command_queue),
                     IF llm_replies < MaxLlmReplies THEN LLMs ELSE {LlmDown}) :
       Deliver(Head(command_queue), env,
               process_command(Self, Head(command_queue), env),
               Heard(Self, Head(command_queue), env),
               ~IsNone(pending_plan))
  /\ UNCHANGED <<response_queue, required_confirmations, brain, audio, skills,
                 is_recording, toggles, drops, wakes, probe>>

\* self.response_queue.put(response)
BackendPut ==
  /\ running
  /\ pc = "put"
  /\ response_queue' = Append(response_queue, TheValue(response))
  /\ response' = NoneV
  /\ pc' = "poll"
  /\ last' = NoLast
  /\ UNCHANGED <<command_queue, running, pending_plan, pending_command_text,
                 pending_confirmations, required_confirmations, last_error, brain,
                 audio, skills, recording, is_recording, toggles, drops, wakes,
                 llm_replies, sessions, affirmed, cancelled, probe>>

\* _on_wake_word_detected, on the detector thread
WakeWord ==
  /\ running
  /\ audio
  /\ wakes < MaxWake
  /\ Settled
  /\ wakes' = wakes + 1
  /\ response_queue' =
       Append(response_queue,
              [type |-> "event", event |-> "wake_word_detected",
               status |-> "success", message |-> <<"Wake word detected">>])
  /\ UNCHANGED <<command_queue, running, pc, response, pending_plan,
                 pending_command_text, pending_confirmations,
                 required_confirmations, last_error, brain, audio, skills,
                 recording, is_recording, toggles, drops, llm_replies, sessions,
                 affirmed, cancelled, last, probe>>

\* --------------------------------------------------------------------- GUI
GuiUnchanged ==
  UNCHANGED <<running, pc, response, pending_plan, pending_command_text,
              pending_confirmations, required_confirmations, last_error, brain,
              audio, skills, recording, wakes, llm_replies, sessions, affirmed,
              cancelled, last, probe>>

\* _toggle_recording: the button or the hotkey
GuiToggleRecording ==
  /\ toggles < MaxToggles
  /\ Settled
  /\ toggles' = toggles + 1
  /\ is_recording' = ~is_recording
  /\ command_queue' =
       Append(command_queue,
              [type |-> IF is_recording THEN "stop_recording" ELSE "start_recording"])
  /\ UNCHANGED <<response_queue, drops>>
  /\ GuiUnchanged

\* dropEvent with one file
GuiDrop ==
  /\ drops < MaxDrops
  /\ Settled
  /\ drops' = drops + 1
  /\ command_queue' =
       Append(command_queue, [type |-> "file_drop", files |-> <<"file">>,
                              message |-> <<"Files dropped:", "file">>])
  /\ UNCHANGED <<response_queue, is_recording, toggles>>
  /\ GuiUnchanged

\* CommandProcessor.run takes a response and _handle_response handles it
GuiHandleResponse ==
  /\ response_queue # <<>>
  /\ response_queue' = Tail(response_queue)
  /\ LET r == Head(response_queue)
     IN  IF Get(r, "type", "response") = "event"
              /\ Get(r, "event", "") = "wake_word_detected"
           THEN IF ~is_recording
                  THEN /\ is_recording' = TRUE
                       /\ command_queue' =
                            Append(command_queue, [type |-> "start_recording"])
                  ELSE UNCHANGED <<is_recording, command_queue>>
         ELSE /\ UNCHANGED is_recording
              /\ IF Get(r, "status", "unknown") = "success" /\ "plan" \in DOMAIN r
                      /\ ~Get(r, "needs_confirmation", FALSE)
                   THEN command_queue' =
                          Append(command_queue,
                                 [type |-> "execute_plan", plan |-> r.plan])
                   ELSE UNCHANGED command_queue
  /\ UNCHANGED <<toggles, drops>>
  /\ GuiUnchanged

Next ==
  \/ BackendProcess
  \/ BackendPut
  \/ WakeWord
  \/ GuiToggleRecording
  \/ GuiDrop
  \/ GuiHandleResponse

Spec == Init /\ [][Next]_vars

(* The system of GUI and backend under the scheduling of its threads: the  *)
(* loop of run polls the command queue for as long as it is running and    *)
(* puts every response it has, and the CommandProcessor thread of the GUI   *)
(* takes every response from the response queue, so none of the three       *)
(* waits for ever once it can act.  The user is not obliged to act, and     *)
(* presses the button at most MaxFairToggles times.                          *)
NextFair ==
  \/ BackendProcess
  \/ BackendPut
  \/ GuiHandleResponse
  \/ (toggles < MaxFairToggles /\ GuiToggleRecording)

SpecFair ==
  /\ Init
  /\ [][NextFair]_vars
  /\ WF_vars(BackendProcess)
  /\ WF_vars(BackendPut)
  /\ WF_vars(GuiHandleResponse)

\* ------------------------------------------------- execute_plan on its own
(* ActionExecutor.execute_plan called directly with any plan of the        *)
(* catalogue, the collaborators of each step answering in every way.       *)
InitExec ==
  /\ InitBackend
  /\ probe \in {Some([plan |-> p, called |-> FALSE, env |-> <<>>,
                      out |-> execute_plan(<<>>, <<>>), calls |-> <<>>]) :
                  p \in Plans}

(* One call of _execute_action as its caller sees it: an exception leaves  *)
(* it, or it returns an outcome.                                            *)
DispatcherCall(action, e) ==
  [action |-> action, raised |-> StepRaises(action, e),
   lookups |-> IF IsStrField(action, "action") /\ ActionType[action] = Chars["click"]
                 THEN click_lookups(action, e) ELSE <<>>,
   shell |-> IF IsStrField(action, "action") /\ ActionType[action] = Chars["shell"]
                  /\ TargetOrValue(action) # ""
               THEN Some(execute_powershell(TargetOrValue(action), e)) ELSE NoneV,
   outcome |-> IF StepRaises(action, e) THEN NoneV
               ELSE Some(execute_action(action, e))]

\* The calls of _execute_action that execute_plan makes, in order
DispatcherCalls(reached, env) ==
  [i \in 1..Len(reached) |-> DispatcherCall(reached[i], env[i])]

ExecutePlanCall ==
  /\ ~IsNone(probe)
  /\ ~TheValue(probe).called
  /\ \E env \in StepEnvSeqs(Len(TheValue(probe).plan)) :
       probe' = Some([plan |-> TheValue(probe).plan, called |-> TRUE, env |-> env,
                      out |-> execute_plan(TheValue(probe).plan, env),
                      calls |-> DispatcherCalls(Reached(TheValue(probe).plan), env)])
  /\ UNCHANGED <<command_queue, response_queue, running, pc, response, pending_plan,
                 pending_command_text, pending_confirmations,
                 required_confirmations, last_error, brain, audio, skills,
                 recording, is_recording, toggles, drops, wakes, llm_replies,
                 sessions, affirmed, cancelled, last>>

NextExec == ExecutePlanCall

SpecExec == InitExec /\ [][NextExec]_vars

\* ------------------------------------------ the backend loop under load
(* The backend loop with a GUI that puts commands at any time, also while  *)
(* a command is being processed, and leaves the responses on their queue.  *)
(* probe holds the commands put so far, in order.                           *)
LoopCommands ==
  {[type |-> "test"], [type |-> "transcribe", text |-> "banana"],
   [type |-> "transcribe", text |-> "confirm"], [type |-> "bogus"],
   [type |-> "file_drop", files |-> <<"file">>,
    message |-> <<"Files dropped:", "file">>],
   [type |-> "start_recording"], [type |-> "stop_recording"],
   [type |-> "execute_plan", plan |-> <<StepOpen>>],
   [type |-> "execute_plan", plan |-> <<StepNonDict>>]}

InitLoop ==
  /\ InitBackend
  /\ probe = Some([sent |-> command_queue])

\* command_queue.put(command) in the GUI process
GuiSend ==
  /\ Len(TheValue(probe).sent) < MaxSent
  /\ \E c \in LoopCommands :
       /\ command_queue' = Append(command_queue, c)
       /\ probe' = Some([sent |-> Append(TheValue(probe).sent, c)])
  /\ UNCHANGED <<response_queue, is_recording, toggles, drops>>
  /\ UNCHANGED <<running, pc, response, pending_plan, pending_command_text,
                 pending_confirmations, required_confirmations, last_error, brain,
                 audio, skills, recording, wakes, llm_replies, sessions, affirmed,
                 cancelled, last>>

NextLoop ==
  \/ BackendProcess
  \/ BackendPut
  \/ GuiSend

SpecLoop == InitLoop /\ [][NextLoop]_vars

\* ------------------------------------------- needs_confirmation on its own
(* ActionPlanner.needs_confirmation called directly with any plan of the   *)
(* planner catalogue.                                                       *)
InitPlanner ==
  /\ InitBackend
  /\ probe \in {Some([plan |-> p, called |-> FALSE, answer |-> ""]) :
                  p \in PlannerPlans}

NeedsConfirmationCall ==
  /\ ~IsNone(probe)
  /\ ~TheValue(probe).called
  /\ probe' = Some([plan |-> TheValue(probe).plan, called |-> TRUE,
                    answer |-> needs_confirmation(TheValue(probe).plan)])
  /\ UNCHANGED <<command_queue, response_queue, running, pc, response, pending_plan,
                 pending_command_text, pending_confirmations,
                 required_confirmations, last_error, brain, audio, skills,
                 recording, is_recording, toggles, drops, wakes, llm_replies,
                 sessions, affirmed, cancelled, last>>

NextPlanner == NeedsConfirmationCall

SpecPlanner == InitPlanner /\ [][NextPlanner]_vars

\* ------------------------------------------------------------- properties
\* A command was processed and its response is not yet put on the queue
Processed == last.type # ""

\* The processed command carried an utterance into _process_transcribed_text
Utterance == Processed /\ ~IsNone(last.text)

UtteranceWhileIdle == Utterance /\ IsNone(last.pre.pending_plan)

UtteranceWhileOpen == Utterance /\ ~IsNone(last.pre.pending_plan)

\* The response of the processed command, a record without fields if it raised
Resp == IF IsNone(last.resp) THEN [type |-> "none"] ELSE TheValue(last.resp)

HasReport == "result" \in DOMAIN Resp

\* create_plan was called and returned the non-empty list of steps it names
MadePlan == TheValue(last.made).list

PlannerMadeSteps ==
  /\ UtteranceWhileIdle
  /\ "skill" \notin last.calls
  /\ ~IsNone(last.made)
  /\ IsJList(TheValue(last.made))
  /\ MadePlan # <<>>

NothingExecuted == last.dispatched = <<>> /\ "executor" \notin last.calls

(* C1: when no session is open, no skill handles the utterance and the     *)
(* planner returns a non-empty plan for which needs_confirmation is true,  *)
(* the router opens a session holding that plan with no confirmation       *)
(* received, answers needs_confirmation = true with remaining equal to the *)
(* required count, and gives no step of the plan to the dispatcher.        *)
C1_DangerousPlanOpensSession ==
  (PlannerMadeSteps /\ needs_confirmation(MadePlan) = "True")
    => /\ ~last.raised
       /\ pending_plan = Some(MadePlan)
       /\ pending_command_text = TheValue(last.text)
       /\ pending_confirmations = 0
       /\ Get(Resp, "needs_confirmation", FALSE) = TRUE
       /\ Get(Resp, "remaining_confirmations", -1) = required_confirmations
       /\ ~HasReport
       /\ NothingExecuted

C1_Witness ==
  /\ PlannerMadeSteps
  /\ needs_confirmation(MadePlan) = "True"
  /\ Get(Resp, "needs_confirmation", FALSE) = TRUE

(* C2: in a session requiring N >= 1 confirmations, the k-th affirmative   *)
(* utterance, k < N, is answered without an execution report and with      *)
(* remaining = N - k, the N-th is answered with the execution report, and  *)
(* after the N-th the session is cleared.                                   *)
C2_NthConfirmationExecutes ==
  (UtteranceWhileOpen /\ TheValue(last.text) \in AffirmativeTexts
     /\ required_confirmations >= 1)
    => /\ ~last.raised
       /\ last.heard <= required_confirmations
       /\ IF last.heard < required_confirmations
            THEN /\ ~HasReport
                 /\ NothingExecuted
                 /\ Get(Resp, "remaining_confirmations", -1)
                      = required_confirmations - last.heard
                 /\ pending_plan = last.pre.pending_plan
            ELSE /\ HasReport
                 /\ last.dispatched = TheValue(last.pre.pending_plan)
                 /\ Session(Self) = NoSession

(* C3: while a session is open, a text that normalizes to cancel, stop, no *)
(* or abort drops the session whatever the number of confirmations         *)
(* received: the plan is discarded and not executed afterwards, no report  *)
(* is emitted, a cancellation response is returned, and the next utterance *)
(* is routed as a fresh command.                                            *)
C3_CancelDropsSession ==
  /\ (UtteranceWhileOpen /\ TheValue(last.text) \in CancelTexts)
       => /\ ~last.raised
          /\ Session(Self) = NoSession
          /\ ~HasReport
          /\ NothingExecuted
          /\ Get(Resp, "message", <<>>) = <<"Dangerous task canceled">>
          /\ "awaiting_confirmation" \notin DOMAIN Resp
  /\ (Processed /\ last.sid \in cancelled) => "executor" \notin last.calls
  /\ UtteranceWhileIdle => "gate" \notin last.calls

C3_Witness ==
  /\ UtteranceWhileOpen
  /\ TheValue(last.text) = "STOP"
  /\ last.pre.pending_confirmations >= 1
  /\ Session(Self) = NoSession

(* C4: while a session is open, a text that is neither an affirmative nor  *)
(* a cancel token leaves the plan, the source text and the confirmations   *)
(* received as they were, executes nothing, and is answered by a re-prompt *)
(* whose remaining_confirmations is the value before that text.            *)
C4_OtherTextLeavesSession ==
  (UtteranceWhileOpen /\ TheValue(last.text) \notin AffirmativeTexts \cup CancelTexts)
    => /\ ~last.raised
       /\ Session(Self) = last.pre
       /\ ~HasReport
       /\ NothingExecuted
       /\ Get(Resp, "awaiting_confirmation", FALSE) = TRUE
       /\ Get(Resp, "remaining_confirmations", -1)
            = required_confirmations - last.pre.pending_confirmations

C4_Witness ==
  /\ UtteranceWhileOpen
  /\ TheValue(last.text) = "banana"
  /\ last.pre.pending_confirmations = 1
  /\ Get(Resp, "remaining_confirmations", -1) = 1

(* C5: while a session is open every utterance goes to the confirmation    *)
(* gate only: neither the skills nor the planner are called, so the        *)
(* pending plan is either kept or dropped, never replaced by another.      *)
C5_OpenSessionCapturesInput ==
  UtteranceWhileOpen
    => /\ "gate" \in last.calls
       /\ "skills" \notin last.calls
       /\ "skill" \notin last.calls
       /\ "planner" \notin last.calls
       /\ IsNone(last.made)
       /\ pending_plan \in {NoneV, last.pre.pending_plan}

C5_Witness ==
  /\ UtteranceWhileOpen
  /\ TheValue(last.text) = "Weather today"
  /\ skills # <<>>
  /\ pending_plan = last.pre.pending_plan

(* C6 as stated: when no session is open, no skill handles the utterance   *)
(* and the planner returns a non-empty plan that is not dangerous, the     *)
(* router runs the plan while processing that utterance and the response   *)
(* to the utterance reports the execution report.                          *)
C6_SafePlanRunsAtOnce ==
  (PlannerMadeSteps /\ needs_confirmation(MadePlan) = "False")
    => "executor" \in last.calls /\ HasReport

\* The GUI takes a success response that carries a plan needing no
\* confirmation
TakesSafePlan ==
  /\ response_queue # <<>>
  /\ response_queue' = Tail(response_queue)
  /\ Get(Head(response_queue), "type", "response") # "event"
  /\ Get(Head(response_queue), "status", "unknown") = "success"
  /\ "plan" \in DOMAIN Head(response_queue)
  /\ ~Get(Head(response_queue), "needs_confirmation", FALSE)

\* The router hands a safe plan to the caller and executes nothing
SafePlanHandedOver ==
  (PlannerMadeSteps /\ needs_confirmation(MadePlan) = "False")
    => /\ ~last.raised
       /\ NothingExecuted
       /\ ~HasReport
       /\ Get(Resp, "status", "") = "success"
       /\ Get(Resp, "plan", <<>>) = MadePlan
       /\ Get(Resp, "needs_confirmation", TRUE) = FALSE
       /\ Session(Self) = NoSession

\* An execute_plan command with a non-empty plan is answered with the
\* execution report
ExecutePlanReports ==
  (Processed /\ last.type = "execute_plan" /\ brain /\ last.plan # <<>>)
    => /\ ~last.raised
       /\ HasReport
       /\ "executor" \in last.calls
       /\ last.dispatched = last.plan

\* The GUI sends the plan it takes back as an execute_plan command
SendsPlanBack ==
  TakesSafePlan
    => command_queue' =
         Append(command_queue,
                [type |-> "execute_plan", plan |-> Head(response_queue).plan])

(* C6, amended: in that case the router executes nothing while processing  *)
(* the utterance; its response has status success, carries the plan with   *)
(* needs_confirmation = false and no execution report.  The GUI, handling  *)
(* that response, puts an execute_plan command with the same plan, and the *)
(* response to that execute_plan command carries the execution report.     *)
C6_SafePlanReturnedThenRun ==
  [](SafePlanHandedOver /\ ExecutePlanReports) /\ [][SendsPlanBack]_vars

C6_Witness ==
  /\ Processed
  /\ last.type = "execute_plan"
  /\ last.plan = <<StepOpen>>
  /\ HasReport
  /\ last.dispatched = <<StepOpen>>

\* The utterances of the catalogue that the weather skill can handle
SkillTexts == {"Weather today"}

(* C7: when no session is open and a registered enabled skill matches the  *)
(* utterance, the skill is executed and its result becomes the response    *)
(* (an error response when it fails or raises), and the planner is not     *)
(* called for that utterance.                                               *)
C7_SkillShortCircuitsPlanner ==
  (UtteranceWhileIdle /\ brain /\ TheValue(last.text) \in SkillTexts
     /\ \E i \in 1..Len(skills) : skills[i].enabled)
    => /\ ~last.raised
       /\ "skill" \in last.calls
       /\ "planner" \notin last.calls
       /\ IsNone(last.made)
       /\ "plugin_data" \in DOMAIN Resp
       /\ Get(Resp, "status", "") = (IF last.skill = "ok" THEN "success" ELSE "error")
       /\ Get(Resp, "message", <<>>)
            = (IF last.skill = "raise" THEN <<"Error executing skill:">>
               ELSE <<"skill response">>)
       /\ NothingExecuted
       /\ Session(Self) = NoSession

C7_Witness ==
  /\ UtteranceWhileIdle
  /\ TheValue(last.text) = "Weather today"
  /\ last.skill = "raise"
  /\ Get(Resp, "status", "") = "error"

(* C8: when create_plan returns the empty plan, the language model being   *)
(* unavailable, answering an error or answering text that is no plan, the  *)
(* router answers status error with a message, opens no session, hands no  *)
(* plan to the caller and dispatches no action.                             *)
C8_EmptyPlanIsAnError ==
  (UtteranceWhileIdle /\ "planner" \in last.calls /\ last.made = Some(JList(<<>>)))
    => /\ ~last.raised
       /\ Get(Resp, "status", "") = "error"
       /\ Get(Resp, "message", <<>>) # <<>>
       /\ Session(Self) = NoSession
       /\ "plan" \notin DOMAIN Resp
       /\ ~HasReport
       /\ NothingExecuted

C8_Witness ==
  /\ UtteranceWhileIdle
  /\ last.llm = Some([available |-> TRUE, reply |-> <<TokProse>>])
  /\ Get(Resp, "status", "") = "error"
  /\ last_error = "Failed to parse plan JSON"

\* The direct call of execute_plan has returned or raised
Called == ~IsNone(probe) /\ TheValue(probe).called

ProbePlan == TheValue(probe).plan

ProbeOut == TheValue(probe).out

Report == TheValue(ProbeOut.report)

(* C9: execute_plan of the empty plan returns a report with success false  *)
(* and total_steps 0, and gives no action to the dispatcher.               *)
C9_EmptyPlanReport ==
  (Called /\ ProbePlan = <<>>)
    => /\ ~ProbeOut.raised
       /\ ProbeOut.dispatched = <<>>
       /\ "success" \in DOMAIN Report
       /\ Report.success = FALSE
       /\ "total_steps" \in DOMAIN Report
       /\ Report.total_steps = 0

(* C10: for every non-empty plan the report execute_plan returns has       *)
(* success true exactly when every step outcome succeeded, successful_steps *)
(* the number of step outcomes that succeeded, and success true exactly    *)
(* when successful_steps = total_steps.                                     *)
C10_ReportSummarisesOutcomes ==
  (Called /\ ProbePlan # <<>> /\ ~ProbeOut.raised)
    => LET ok == {i \in 1..Len(Report.results) :
                    Get(Report.results[i], "success", FALSE)}
       IN  /\ Len(Report.results) = Len(ProbePlan)
           /\ Report.total_steps = Len(ProbePlan)
           /\ Report.success = (ok = 1..Len(Report.results))
           /\ Report.successful_steps = Cardinality(ok)
           /\ Report.success = (Report.successful_steps = Report.total_steps)

C10_Witness ==
  /\ Called
  /\ Len(ProbePlan) = 2
  /\ ~ProbeOut.raised
  /\ Report.successful_steps = 1
  /\ ~Report.success

\* The calls of _execute_action the direct call of execute_plan has made
ProbeCalls == TheValue(probe).calls

\* Every step of the plan is an action descriptor (a dict)
DictPlan == \A i \in 1..Len(ProbePlan) : IsDict(ProbePlan[i])

\* The call raised, or it returned an outcome that did not succeed
CallFailed(c) == c.raised \/ ~Get(TheValue(c.outcome), "success", FALSE)

FailedCalls == {i \in 1..Len(ProbeCalls) : CallFailed(ProbeCalls[i])}

(* C11: a step failure never aborts a plan.  For a plan of N action        *)
(* descriptors of which exactly one fails at the dispatcher (it returns a  *)
(* failed outcome or raises) and the other N-1 succeed, execute_plan       *)
(* returns, all N steps are dispatched, the failing step has one outcome   *)
(* with success false, total_steps = N and successful_steps = N-1.         *)
C11_FailureNeverAborts ==
  (Called /\ ProbePlan # <<>> /\ DictPlan /\ Cardinality(FailedCalls) = 1)
    => /\ ~ProbeOut.raised
       /\ ProbeOut.dispatched = ProbePlan
       /\ Len(ProbeCalls) = Len(ProbePlan)
       /\ Len(Report.results) = Len(ProbePlan)
       /\ \A i \in 1..Len(ProbePlan) :
            /\ "success" \in DOMAIN Report.results[i]
            /\ Report.results[i].success = (i \notin FailedCalls)
       /\ Report.total_steps = Len(ProbePlan)
       /\ Report.successful_steps = Len(ProbePlan) - 1

\* The first of two steps raises in the dispatcher and the second succeeds
C11_Witness ==
  /\ Called
  /\ Len(ProbePlan) = 2
  /\ DictPlan
  /\ FailedCalls = {1}
  /\ ProbeCalls[1].raised
  /\ ProbeOut.dispatched = ProbePlan
  /\ Report.successful_steps = 1

\* What a call of _execute_action returned is a StepOutcome
IsStepOutcome(o) ==
  /\ ~IsNone(o)
  /\ {"success", "message"} \subseteq DOMAIN TheValue(o)
  /\ TheValue(o).success \in BOOLEAN
  /\ TheValue(o).message # <<>>

(* C12: the dispatcher _execute_action never raises past its boundary: for *)
(* every action descriptor, also one with a missing, empty or wrongly      *)
(* typed kind, target or value, it returns a StepOutcome with success and  *)
(* a message.                                                               *)
C12_DispatcherNeverRaises ==
  Called => \A i \in 1..Len(ProbeCalls) :
              /\ ~ProbeCalls[i].raised
              /\ IsStepOutcome(ProbeCalls[i].outcome)

(* C15: for a non-empty plan of n action descriptors execute_plan calls    *)
(* the dispatcher exactly n times, call i with plan[i], and results[i] of  *)
(* the report is the outcome of call i (a failed outcome when the call     *)
(* raised), with total_steps = n.                                           *)
C15_OneCallPerStepInOrder ==
  (Called /\ ProbePlan # <<>> /\ DictPlan)
    => /\ ~ProbeOut.raised
       /\ Len(ProbeCalls) = Len(ProbePlan)
       /\ \A i \in 1..Len(ProbePlan) : ProbeCalls[i].action = ProbePlan[i]
       /\ ProbeOut.dispatched = ProbePlan
       /\ Len(Report.results) = Len(ProbePlan)
       /\ Report.total_steps = Len(ProbePlan)
       /\ \A i \in 1..Len(ProbePlan) :
            IF ProbeCalls[i].raised
              THEN Get(Report.results[i], "success", TRUE) = FALSE
            ELSE Report.results[i] = TheValue(ProbeCalls[i].outcome)

\* Two different steps with different outcomes, each at its own index
C15_Witness ==
  /\ Called
  /\ Len(ProbePlan) = 2
  /\ DictPlan
  /\ ProbePlan[1] # ProbePlan[2]
  /\ Len(ProbeCalls) = 2
  /\ ~ProbeCalls[1].raised
  /\ ~ProbeCalls[2].raised
  /\ Report.results[1].success
  /\ ~Report.results[2].success

\* The high-risk substrings the classification is said to look for
HighRiskSubstrings ==
  {"delete", "remove", "format", "rm ", "del ", "registry", "regedit", "system32"}

\* Step i of the plan carries a true explicit danger flag
DangerFlag(i) == Get(ProbePlan[i], "confirm", FALSE) = TRUE

\* The lower-cased rendering of step i contains a high-risk substring
RenderingAtRisk(i) ==
  \E k \in HighRiskSubstrings : Contains(Chars[k], Lower(Dumps(ProbePlan[i])))

(* C13: for a plan of action descriptors needs_confirmation returns true   *)
(* if and only if some action carries a true danger flag or the            *)
(* lower-cased rendering of some action contains one of delete, remove,    *)
(* format, "rm ", "del ", registry, regedit, system32; so a plan with such *)
(* a substring in any action yields true and a plan with no such substring *)
(* and no flag yields false.                                                *)
C13_DangerousIffFlagOrSubstring ==
  (Called /\ DictPlan)
    => /\ TheValue(probe).answer \in {"True", "False"}
       /\ (TheValue(probe).answer = "True")
            <=> (\E i \in 1..Len(ProbePlan) : DangerFlag(i) \/ RenderingAtRisk(i))

\* A harmless step, then a step whose upper-case target holds "rm " once
\* lower-cased, and no flag anywhere: the answer is true
C13_Witness ==
  /\ Called
  /\ ProbePlan = <<StepOpen, [action |-> "shell", target |-> "RM -rf x"]>>
  /\ ~DangerFlag(1) /\ ~DangerFlag(2)
  /\ ~RenderingAtRisk(1) /\ RenderingAtRisk(2)
  /\ TheValue(probe).answer = "True"

\* The commands put on the command queue so far, and those taken from it
Sent == TheValue(probe).sent

Taken == SubSeq(Sent, 1, Len(Sent) - Len(command_queue))

\* The responses of the commands whose response names the command
EchoOf(c) ==
  CASE c.type = "test" -> <<"AI Backend is operational!">>
    [] c.type = "transcribe" -> <<"Processing:", c.text>>
    [] c.type = "file_drop" -> <<"Received", "file(s)">>
    [] OTHER -> <<"Unknown command type:", c.type>>

StartMessages ==
  {<<"Audio recorder not available">>, <<"Recording started">>,
   <<"Failed to start recording">>}

\* r can be the response to command c, and to no command of another type
Answers(r, c) ==
  CASE c.type \in {"test", "transcribe", "file_drop", "bogus"} ->
         r.message = EchoOf(c)
    [] c.type = "start_recording" -> r.message \in StartMessages
    [] c.type = "execute_plan" ->
         IF "result" \in DOMAIN r
           THEN r.result.results \in {<<action_open(StepOpen, e)>> : e \in StepEnvs}
         ELSE r.message = <<"No plan to execute or executor not available">>
    [] OTHER -> /\ r.message \notin StartMessages
                /\ r.message # <<"No plan to execute or executor not available">>
                /\ r.message \notin {EchoOf(d) : d \in LoopCommands}
                /\ "result" \notin DOMAIN r

(* C14: the backend processes commands one at a time.  Whatever the GUI    *)
(* puts on the command queue and whenever, a command is taken only when    *)
(* the response to the command taken before it is on the response queue,   *)
(* at most one command is between its taking and its response, and the     *)
(* responses are on the response queue in the order in which their         *)
(* commands were taken.                                                     *)
C14_OneCommandAtATime ==
  /\ [](/\ Len(Sent) >= Len(command_queue)
        /\ Len(Taken) \in {Len(response_queue), Len(response_queue) + 1}
        /\ running => ((pc = "put") <=> (Len(Taken) = Len(response_queue) + 1))
        /\ (pc = "put") => ~IsNone(response)
        /\ \A i \in 1..Len(response_queue) : Answers(response_queue[i], Taken[i]))
  /\ [][(command_queue # <<>> /\ command_queue' = Tail(command_queue))
          => /\ Len(response_queue) = Len(Taken)
             /\ pc = "poll"]_vars

\* Three commands were put and taken, and their three responses are on the
\* response queue in that order
C14_Witness ==
  /\ ~IsNone(probe)
  /\ "sent" \in DOMAIN TheValue(probe)
  /\ Sent = <<[type |-> "test"], [type |-> "transcribe", text |-> "banana"],
              [type |-> "bogus"]>>
  /\ Len(response_queue) = 3
  /\ response_queue[2].message = <<"Processing:", "banana">>

\* The affirmative tokens
AffirmativeTokens == {"confirm", "yes", "proceed", "continue", "confirm execute"}

\* The step processes an utterance that is an affirmative token once trimmed
\* and lower-cased
ProcessesAffirmativeToken ==
  /\ ~IsNone(last'.text)
  /\ Lower(Strip(Chars[TheValue(last'.text)])) \in {Chars[t] : t \in AffirmativeTokens}

\* The step begins and ends within one confirmation session
WithinOneSession ==
  ~IsNone(pending_plan) /\ ~IsNone(pending_plan') /\ sessions' = sessions

(* C16: within one confirmation session confirmations_received never       *)
(* decreases, and a step changes it only by adding exactly one while it    *)
(* processes an affirmative token (confirm, yes, proceed, continue,        *)
(* confirm execute after trimming and lower-casing); no other command or   *)
(* text changes it.                                                         *)
C16_ConfirmationsOnlyGrowByToken ==
  [][WithinOneSession
       => \/ pending_confirmations' = pending_confirmations
          \/ /\ pending_confirmations' = pending_confirmations + 1
             /\ ProcessesAffirmativeToken]_vars

\* The second confirmation of a session that requires three
C16_Witness ==
  /\ ~IsNone(pending_plan)
  /\ pending_confirmations = 2
  /\ last.pre.pending_confirmations = 1
  /\ last.text = Some(" Yes ")

(* C17: in every state between two commands, if a confirmation session is  *)
(* open (a pending plan is present) then                                    *)
(* 0 <= confirmations_received < confirmations_required.                    *)
C17_OpenSessionBelowThreshold ==
  ~IsNone(pending_plan)
    => /\ 0 <= pending_confirmations
       /\ pending_confirmations < required_confirmations

\* The command just processed took the session to its threshold and handed
\* its plan to the executor
Released == Processed /\ {"gate", "executor"} \subseteq last.calls

\* The plan the session held when that command was taken
StoredPlan == TheValue(last.pre.pending_plan)

\* The executor was given the steps of the stored plan, in order: all of
\* them, or those before the step at which execute_plan raised
RanStoredPlan ==
  Released
    => /\ Len(last.dispatched) <= Len(StoredPlan)
       /\ last.dispatched = SubSeq(StoredPlan, 1, Len(last.dispatched))
       /\ ~last.raised => last.dispatched = StoredPlan

(* C18: the plan handed to the executor when a session reaches its         *)
(* threshold is exactly the plan stored when the session was opened, same  *)
(* steps in the same order: no command processed while the session is open *)
(* changes the stored plan, whether it carries a confirmation, another     *)
(* text or no utterance, and the release runs the stored plan.              *)
C18_ReleasedPlanIsStoredPlan ==
  /\ []RanStoredPlan
  /\ [][WithinOneSession => pending_plan' = pending_plan]_vars

\* A plan of two steps is released by the second confirmation of its session
C18_Witness ==
  /\ Released
  /\ ~last.raised
  /\ Len(StoredPlan) = 2
  /\ last.pre.pending_confirmations = 1
  /\ last.dispatched = StoredPlan

\* The kinds of action an action descriptor may carry
RecognizedKinds == {"click", "type", "key", "shell", "open", "wait", "move", "scroll"}

HasRecognizedKind(a) ==
  /\ IsDict(a)
  /\ "action" \in DOMAIN a
  /\ IsStrField(a, "action")
  /\ a.action \in RecognizedKinds

InvalidPlan(plan) == \E i \in 1..Len(plan) : ~HasRecognizedKind(plan[i])

(* C19: a plan in which some action carries no recognized kind (click,     *)
(* type, key, shell, open, wait, move, scroll) is treated as invalid: the  *)
(* router opens no session for it, does not answer with it, and no step of *)
(* it reaches the executor, neither at once nor when the GUI sends it back *)
(* in an execute_plan command.                                              *)
C19_InvalidPlanGoesNowhere ==
  /\ (PlannerMadeSteps /\ InvalidPlan(MadePlan))
       => /\ IsNone(pending_plan)
          /\ "plan" \notin DOMAIN Resp
          /\ NothingExecuted
  /\ (Processed /\ last.type = "execute_plan" /\ InvalidPlan(last.plan))
       => NothingExecuted

\* The language model the planner met while the command was processed
MetLlm == TheValue(last.llm)

\* What json.loads made of the reply, None when it raised
ReplyData == JsonLoads(ExtractBlock(MetLlm.reply))

\* The reply is an object with a plan field or a bare sequence
ExpectedShape ==
  /\ MetLlm.available
  /\ ~StartsWithError(MetLlm.reply)
  /\ ~IsNone(ReplyData)
  /\ \/ IsJList(TheValue(ReplyData))
     \/ IsJObj(TheValue(ReplyData)) /\ "plan" \in DOMAIN TheValue(ReplyData).obj

\* create_plan was called and returned the empty plan
ReturnedEmptyPlan ==
  /\ Processed
  /\ ~IsNone(last.llm)
  /\ ~IsNone(last.made)
  /\ TheValue(last.made) = JList(<<>>)

(* C20: whenever create_plan returns the empty plan because the            *)
(* collaborator is unavailable or answers with an error, or its reply      *)
(* cannot be parsed or is neither an object with a plan field nor a bare   *)
(* sequence, a non-empty last-error description is recorded and can be     *)
(* read by the caller after the call.                                       *)
C20_EmptyPlanRecordsError ==
  (ReturnedEmptyPlan /\ ~ExpectedShape) => last_error # ""

\* Call i of the dispatcher is a click on a named target that did not raise
ClickCall(i) ==
  /\ ~ProbeCalls[i].raised
  /\ ProbeCalls[i].lookups # <<>>

ClickOutcome(i) == TheValue(ProbeCalls[i].outcome)

(* C21: for a click on a named target the accessibility lookup is asked    *)
(* first; if it finds the target the click goes to its result and the      *)
(* vision tier is not asked; the vision tier is asked only if the          *)
(* accessibility tier returns none, and then the click goes to its result; *)
(* if both return none no click is made and the outcome is a failure whose *)
(* message holds the name of the target.                                    *)
C21_ClickResolutionOrder ==
  Called => \A i \in 1..Len(ProbeCalls) :
    ClickCall(i) =>
      /\ Head(ProbeCalls[i].lookups) = "accessibility"
      /\ TheValue(probe).env[i] = "ok"
           => /\ ProbeCalls[i].lookups = <<"accessibility">>
              /\ ClickOutcome(i).success
              /\ ClickOutcome(i).coordinates = "accessibility"
      /\ TheValue(probe).env[i] = "alt"
           => /\ ProbeCalls[i].lookups = <<"accessibility", "vision">>
              /\ ClickOutcome(i).success
              /\ ClickOutcome(i).coordinates = "vision"
      /\ TheValue(probe).env[i] = "fail"
           => /\ ProbeCalls[i].lookups = <<"accessibility", "vision">>
              /\ ~ClickOutcome(i).success
              /\ "coordinates" \notin DOMAIN ClickOutcome(i)
              /\ ClickOutcome(i).message
                   = <<"Could not find:", ProbeCalls[i].action.target>>

\* Both tiers would find the target, and the click goes to the
\* accessibility result
C21_Witness ==
  /\ Called
  /\ ProbePlan = <<StepClick>>
  /\ TheValue(probe).env = <<"ok">>
  /\ ProbeCalls[1].lookups = <<"accessibility">>
  /\ ClickOutcome(1).coordinates = "accessibility"

\* Call i of the dispatcher is a shell step that gave its command to the
\* shell collaborator
ShellCall(i) == ~IsNone(ProbeCalls[i].shell)

\* What the shell collaborator reported to call i
ShellReport(i) == TheValue(ProbeCalls[i].shell)

(* C22: the outcome of a shell step has success true if and only if the    *)
(* exit status the shell collaborator reported is zero, whatever it wrote  *)
(* on stdout and stderr, and the outcome carries that exit status          *)
(* unchanged, with the output, in its extra data.                           *)
C22_ShellSuccessIsExitStatusZero ==
  Called => \A i \in 1..Len(ProbeCalls) :
    ShellCall(i) =>
      /\ ~ProbeCalls[i].raised
      /\ TheValue(ProbeCalls[i].outcome).success = (ShellReport(i).code = 0)
      /\ TheValue(ProbeCalls[i].outcome).return_code = ShellReport(i).code
      /\ TheValue(ProbeCalls[i].outcome).output = ShellReport(i).stdout
      /\ TheValue(ProbeCalls[i].outcome).error = ShellReport(i).stderr

\* The shell ends with status 0 and text on stderr: the step succeeded
C22_Witness ==
  /\ Called
  /\ ProbePlan = <<StepDir>>
  /\ ShellCall(1)
  /\ ShellReport(1).code = 0
  /\ ShellReport(1).stderr # ""
  /\ TheValue(ProbeCalls[1].outcome).success
  /\ TheValue(ProbeCalls[1].outcome).return_code = 0

\* Call i carries a kind that is a string and, lower-cased, none of the
\* recognized kinds
UnrecognizedKindCall(i) ==
  /\ IsStrField(ProbeCalls[i].action, "action")
  /\ \A k \in RecognizedKinds :
       Lower(Chars[Get(ProbeCalls[i].action, "action", "")]) # Chars[k]

(* C23: an action with an unrecognized kind yields a failure outcome that  *)
(* names that kind, reaches no collaborator (no lookup, no shell), and     *)
(* does not stop the enclosing plan: the remaining steps are dispatched    *)
(* and every step has its outcome in the report.                            *)
C23_UnknownKindFailsAndGoesOn ==
  (Called /\ DictPlan) => \A i \in 1..Len(ProbeCalls) :
    UnrecognizedKindCall(i) =>
      /\ ~ProbeCalls[i].raised
      /\ TheValue(ProbeCalls[i].outcome)
           = [success |-> FALSE,
              message |-> <<"Unknown action:",
                            Lower(Chars[Get(ProbeCalls[i].action, "action", "")])>>]
      /\ ProbeCalls[i].lookups = <<>>
      /\ IsNone(ProbeCalls[i].shell)
      /\ ~ProbeOut.raised
      /\ ProbeOut.dispatched = ProbePlan
      /\ Len(Report.results) = Len(ProbePlan)
      /\ Report.results[i] = TheValue(ProbeCalls[i].outcome)

\* A step of kind fly fails and the step after it runs
C23_Witness ==
  /\ Called
  /\ ProbePlan = <<StepFly, StepOpen>>
  /\ UnrecognizedKindCall(1)
  /\ ~Report.results[1].success
  /\ Report.results[1].message = <<"Unknown action:", Chars["fly"]>>
  /\ Report.results[2].success
  /\ ProbeOut.dispatched = ProbePlan

\* The plan that reached the executor came in an execute_plan command and
\* is not dangerous, or it is the pending plan of a session and this is the
\* affirmative utterance that completes the required number
ExecutorGuarded ==
  (Processed /\ "executor" \in last.calls)
    => IF last.type = "execute_plan"
         THEN needs_confirmation(last.plan) = "False"
       ELSE /\ UtteranceWhileOpen
            /\ TheValue(last.text) \in AffirmativeTexts
            /\ last.heard >= 1
            /\ last.heard >= required_confirmations
            /\ needs_confirmation(StoredPlan) = "True"

\* A response that asks for confirmation carries no plan
DangerousResponseHasNoPlan ==
  /\ Get(Resp, "needs_confirmation", FALSE) => "plan" \notin DOMAIN Resp
  /\ \A i \in 1..Len(response_queue) :
       Get(response_queue[i], "needs_confirmation", FALSE)
         => "plan" \notin DOMAIN response_queue[i]

\* The GUI puts an execute_plan command only for the plan of the response it
\* handles, and only if that response does not ask for confirmation
GuiSendsOnlySafePlans ==
  (/\ Len(command_queue') > Len(command_queue)
   /\ command_queue'[Len(command_queue')].type = "execute_plan")
    => /\ response_queue # <<>>
       /\ "plan" \in DOMAIN Head(response_queue)
       /\ command_queue'[Len(command_queue')].plan = Head(response_queue).plan
       /\ ~Get(Head(response_queue), "needs_confirmation", FALSE)
       /\ needs_confirmation(Head(response_queue).plan) = "False"

(* C24: in the system of GUI and backend every plan that reaches the       *)
(* executor is a plan for which needs_confirmation returned false, or the  *)
(* pending plan of a session that has received the required number of      *)
(* affirmative tokens; the GUI never sends an execute_plan command for a   *)
(* plan whose response carried needs_confirmation = true, and the response *)
(* to a dangerous plan does not carry the plan.                             *)
C24_OnlySafeOrConfirmedPlansRun ==
  /\ [](ExecutorGuarded /\ DangerousResponseHasNoPlan)
  /\ [][GuiSendsOnlySafePlans]_vars

\* A safe plan of two steps came back in an execute_plan command and ran
C24_Witness ==
  /\ Processed
  /\ last.type = "execute_plan"
  /\ "executor" \in last.calls
  /\ Len(last.plan) = 2
  /\ last.dispatched = last.plan

\* The affirmative token at which a session releases its plan
Threshold == IF required_confirmations > 1 THEN required_confirmations ELSE 1

\* The command just processed carried an affirmative token into an open
\* session
AffirmativeWhileOpen == UtteranceWhileOpen /\ TheValue(last.text) \in AffirmativeTexts

(* C25: for every configured number of confirmations, 1 and negative ones  *)
(* included, a pending dangerous plan is executed only while an            *)
(* affirmative token of its session is processed, and that token is the    *)
(* k-th of the session with k = max(1, confirmations_required): no earlier *)
(* token executes it and the k-th does.  A configured 0 is replaced by 3,  *)
(* so the required number is never 0.                                       *)
C25_ExecutesOnKthToken ==
  /\ required_confirmations # 0
  /\ Released => (AffirmativeWhileOpen /\ last.heard >= 1 /\ last.heard = Threshold)
  /\ AffirmativeWhileOpen
       => /\ last.heard <= Threshold
          /\ last.heard < Threshold => (NothingExecuted /\ pending_plan = last.pre.pending_plan)
          /\ last.heard = Threshold => (Released /\ IsNone(pending_plan))

\* The third affirmative token of a session that requires three
C25_Witness ==
  /\ Released
  /\ required_confirmations = 3
  /\ last.heard = 3
  /\ last.dispatched = StoredPlan

\* The command just processed carried the affirmative token that takes the
\* open session to its threshold
ReachedThreshold == AffirmativeWhileOpen /\ last.heard = Threshold

(* C26: whenever an open session reaches its confirmation threshold the    *)
(* pending plan is non-empty and the executor is available, so the         *)
(* response carries an execution report, and the response "No pending      *)
(* plan to execute" of the confirmation handler is never given.            *)
C26_ThresholdAlwaysReports ==
  /\ ReachedThreshold
       => /\ StoredPlan # <<>>
          /\ brain
          /\ "executor" \in last.calls
          /\ HasReport
  /\ Processed => Get(Resp, "message", <<>>) # <<"No pending plan to execute">>

\* The command just processed carried no utterance: every type but a
\* stop_recording that was transcribed to a text
NotAnUtterance == Processed /\ IsNone(last.text)

(* C27: a command that is not an utterance (test, start_recording,         *)
(* transcribe, execute_plan, file_drop, an unknown type, stop_recording     *)
(* without a transcribed text) leaves the confirmation session as it was:   *)
(* same pending plan, same source text, same count of confirmations.        *)
C27_NonUtterancesKeepSession ==
  NotAnUtterance => Session(Self) = last.pre

\* A transcribe command was processed while a session was open and counting
C27_Witness ==
  /\ NotAnUtterance
  /\ last.type = "transcribe"
  /\ ~IsNone(last.pre.pending_plan)
  /\ ~IsNone(pending_plan)
  /\ last.pre.pending_command_text # ""

\* A response that makes the GUI put an execute_plan command
CarriesSafePlan(r) ==
  /\ Get(r, "type", "response") # "event"
  /\ Get(r, "status", "unknown") = "success"
  /\ "plan" \in DOMAIN r
  /\ ~Get(r, "needs_confirmation", FALSE)

\* The utterance just processed was answered with a plan that needs no
\* confirmation
SafePlanAnswered == Utterance /\ ~last.raised /\ CarriesSafePlan(Resp)

ExecutePlanCommands ==
  {i \in 1..Len(command_queue) : command_queue[i].type = "execute_plan"}

SafePlanResponses ==
  {i \in 1..Len(response_queue) : CarriesSafePlan(response_queue[i])}

\* Of one exchange there is one message on its way at a time: the response
\* with the plan, or the execute_plan command made of it
OneInFlight ==
  Cardinality(ExecutePlanCommands) + Cardinality(SafePlanResponses)
    + (IF SafePlanAnswered THEN 1 ELSE 0) <= 1

\* The execute_plan command is answered with a report and without a plan,
\* after each step of its plan was dispatched once
ExecutePlanAnsweredOnce ==
  (Processed /\ last.type = "execute_plan")
    => /\ ~last.raised
       /\ HasReport
       /\ "plan" \notin DOMAIN Resp
       /\ ~CarriesSafePlan(Resp)
       /\ last.dispatched = last.plan
       /\ ExecutePlanCommands = {}

\* Handling a response with a safe plan puts one execute_plan command for
\* that plan; handling the response to an execute_plan command, or any
\* other response that is no wake event, puts nothing
OneCommandPerPlan ==
  (response_queue # <<>> /\ response_queue' = Tail(response_queue))
    => IF CarriesSafePlan(Head(response_queue))
         THEN command_queue' =
                Append(command_queue, [type |-> "execute_plan",
                                       plan |-> Head(response_queue).plan])
       ELSE \/ command_queue' = command_queue
            \/ /\ Get(Head(response_queue), "type", "response") = "event"
               /\ command_queue' =
                    Append(command_queue, [type |-> "start_recording"])

(* C28: in the system of GUI and backend an utterance answered with a plan *)
(* that needs no confirmation causes one execute_plan command and one       *)
(* execution of the plan: the response to execute_plan carries no plan and  *)
(* puts no further command, and the exchange ends with both queues empty.   *)
C28_SafePlanRunsOnce ==
  /\ [](OneInFlight /\ ExecutePlanAnsweredOnce)
  /\ [][OneCommandPerPlan]_vars
  /\ (SafePlanAnswered ~> Settled)

\* The plan of two steps of an utterance came back in the one execute_plan
\* command, was run, and its answer is on its way to the GUI
C28_Witness ==
  /\ Processed
  /\ last.type = "execute_plan"
  /\ Len(last.plan) = 2
  /\ last.dispatched = last.plan
  /\ HasReport
  /\ command_queue = <<>>

\* The commands put so far that the loop has taken from the queue
TakenCount == Len(TheValue(probe).sent) - Len(command_queue)

\* The responses made so far: those put, and the one about to be put
AnswerCount == Len(response_queue) + (IF pc = "put" THEN 1 ELSE 0)

(* C29: every command put on the command queue of the running backend is   *)
(* answered by one response on the response queue and the backend keeps     *)
(* running, whatever the command holds: the loop has made one response for  *)
(* each command it has taken, and it is still running.                       *)
C29_EveryCommandAnsweredOnce ==
  /\ running
  /\ Processed => ~last.raised /\ ~IsNone(last.resp)
  /\ AnswerCount = TakenCount

\* A shell step whose command holds a blacklisted substring, in any case
BlacklistedStep(a) ==
  /\ IsDict(a)
  /\ Get(a, "action", "") = "shell"
  /\ is_dangerous[TargetOrValue(a)]

\* The step outcomes of the report in the response
ReportedOutcomes == Resp.result.results

\* The outcome of a command that execute_powershell refused before it
\* started a process
BlockedOutcome(r) ==
  /\ ~r.success
  /\ r.return_code = -1
  /\ r.error = "Command blocked for safety"
  /\ r.output = ""

(* C30: a shell step whose command contains a blacklisted substring, in    *)
(* any case, starts no process even in a dangerous plan that received all   *)
(* the confirmations required: whatever the command would have done, its    *)
(* outcome is the refusal with exit status -1 and success false, and every  *)
(* step of the plan is still dispatched and reported.                       *)
C30_BlacklistedStepIsRefused ==
  (Released /\ ~last.raised)
    => /\ last.dispatched = StoredPlan
       /\ Len(ReportedOutcomes) = Len(StoredPlan)
       /\ \A i \in 1..Len(StoredPlan) :
            BlacklistedStep(StoredPlan[i]) => BlockedOutcome(ReportedOutcomes[i])

\* Two affirmative tokens released a plan whose first step is refused and
\* whose second step ran and succeeded
C30_Witness ==
  /\ Released
  /\ ~last.raised
  /\ required_confirmations = 2
  /\ last.heard = 2
  /\ Len(StoredPlan) = 2
  /\ BlacklistedStep(StoredPlan[1])
  /\ BlockedOutcome(ReportedOutcomes[1])
  /\ ~BlacklistedStep(StoredPlan[2])
  /\ ReportedOutcomes[2].success
  /\ Resp.result.successful_steps = 1

====
